---------------------------- MODULE Spec2Model ----------------------------
(***************************************************************************)
(* A model of aonui's network retry executor (getURLWithStrategy), of the  *)
(* "sync" download pipeline (runSync, syncRun, fetchDatasetsData, the      *)
(* TemporaryFileSource and the interrupt handler), of the inventory parser *)
(* (ParseInventory) and printer (Wgrib2Strings), of the Tawhiri ordering   *)
(* (ToTawhiri, Less, ReorderGrib2), of the index walk (FetchDatasets), of  *)
(* the ranged download (FetchAndWriteRecords), of the extract command and  *)
(* of a TemporaryFileSource called from one goroutine.                     *)
(*                                                                         *)
(* The remote server is the environment: what its index pages list and how *)
(* every HTTP attempt and every dataset fetch ends is drawn                *)
(* nondeterministically.  Calls on the local file system succeed.          *)
(*                                                                         *)
(* Runs are named by their date, datasets by their position in the run's   *)
(* index, and the temporary file of an attempt by <<dataset, attempt>>     *)
(* (ioutil.TempFile gives every file a name of its own).  tfs.files holds  *)
(* distinct *os.File values and is only searched, extended and cut, so it  *)
(* is kept as the set of its elements.                                     *)
(*                                                                         *)
(* Spec and SpecLimiter take each call of the TemporaryFileSource as one   *)
(* step; SpecRace lets the calls interleave between their load and their   *)
(* store of tfs.files, which no lock protects; SpecInterrupt adds the      *)
(* keyboard interrupt; SpecLive adds the scheduler's fairness.  Each of    *)
(* the library functions has a specification of its own (SpecInv, SpecRt,  *)
(* SpecTaw, SpecReorder, SpecAgain, SpecFd, SpecFw, SpecExtract, SpecSrc)  *)
(* in which the rest of the program stands still.  SpecTmpFail is Spec on  *)
(* a disk on which creating a temporary file can fail.                     *)
(***************************************************************************)
EXTENDS Integers, Sequences, FiniteSets, TLC

(***************************************************************************)
(* Bounds of the model.                                                    *)
(***************************************************************************)
\* most files a TemporaryFileSource used on its own creates
MaxCreated == 3

\* largest FetchStrategy.MaximumRetries tried in the retry executor
MaxRetriesBound == 3

(***************************************************************************)
(* Small helpers.                                                          *)
(***************************************************************************)
Range(s) == {s[i] : i \in 1..Len(s)}

SelectIdx(s, P(_)) == {i \in 1..Len(s) : P(s[i])}

(***************************************************************************)
(* State of the retry executor (getURLWithStrategy).                       *)
(***************************************************************************)
VARIABLES
    fMaximumRetries,  \* strategy.MaximumRetries, as configured
    fpc,              \* position in getURLWithStrategy
    nTries,           \* local nTries
    try,              \* loop variable try
    fLog,             \* what the executor did so far: GETs (with outcome), sleeps
    fResp,            \* returned *http.Response: 0 = nil, else its status
    fErr              \* returned error: "nil" or the error text

fvars == <<fMaximumRetries, fpc, nTries, try, fLog, fResp, fErr>>

(***************************************************************************)
(* State of the sync pipeline (runSync, syncRun, fetchDatasetsData).       *)
(***************************************************************************)
VARIABLES
    \* flags and DataSource configuration
    syncMaxRuns,       \* -maxruns
    MinDatasets,       \* run.Source.MinDatasets
    MaximumRetries,    \* run.Source.FetchStrategy.MaximumRetries
    MaxForecastHour,   \* run.Source.MaxForecastHour
    \* the server
    serverRuns,        \* the numbers of runs the root index may list
    serverDatasets,    \* the numbers of datasets a run's index may list
    serverFetch,       \* how a dataset fetch may end: "ok", "err"
    \* runSync
    pc,                \* position of the main goroutine
    runs,              \* the slice runs (its elements are the runs' dates)
    idx,               \* position of the range loop over runs[:maxRuns]
    succeeded,         \* local succeeded
    exitState,         \* "running", "returned", "fatal" or "panic"
    fatalMsg,          \* the message of log.Fatal
    examined,          \* the runs the loop has looked at, in order
    runResult,         \* per run: "none", "skipped", "ok" or the error of syncRun
    \* the file system
    outExists,         \* runs whose output file <identifier>.grib2 exists
    outData,           \* contents of the output files
    tmpDisk,           \* temporary files on disk, with their contents
    \* syncRun / fetchDatasetsData
    nDatasets,         \* len(datasets) of the run being synced
    spawnIdx,          \* position of the loop launching the tasks
    tfsFiles,          \* tfs.files: the tracked files (distinct *os.File values)
    wg,                \* the WaitGroup's counter
    chanClosed,        \* tmpFilesChan is closed
    closerPc,          \* the goroutine that waits and closes the channel
    recvFile,          \* f, the file the drain loop is handling
    fetchSem,          \* number of permits held in fetchSem
    task,              \* per dataset: the state of its goroutine (pc, tries,
                       \* tmpFile) and whether a fetchDataset call returned nil
    \* goroutines inside a TemporaryFileSource call, the drain loop's history,
    \* the signal handler
    tfsSeen,           \* per goroutine: the value of tfs.files it has loaded
    received,          \* the files the drain loop received, in order
    sigPc              \* position of the goroutine handling os.Interrupt

cfgvars == <<syncMaxRuns, MinDatasets, MaximumRetries, MaxForecastHour,
             serverRuns, serverDatasets, serverFetch>>
mainvars == <<pc, runs, idx, succeeded, exitState, fatalMsg, examined, runResult>>
diskvars == <<outExists, outData, tmpDisk>>
pipevars == <<nDatasets, spawnIdx, tfsFiles, wg, chanClosed, closerPc, recvFile,
              fetchSem, task>>
auxvars == <<tfsSeen, received, sigPc>>
svars == <<cfgvars, mainvars, diskvars, pipevars, auxvars>>

(***************************************************************************)
(* State of the inventory parser (ParseInventory).                         *)
(***************************************************************************)
VARIABLES
    invLines,          \* the lines the scanner delivers from stream
    invReadErr,        \* how the stream ends: "none" (EOF), or with a read
                       \* error that the scanner meets while it still has a
                       \* last line to deliver ("token") or has none ("end")
    totalLength,       \* argument totalLength
    ipc,               \* position in ParseInventory
    lineNo,            \* the line scanner.Scan() delivers next
    inventory,         \* local inventory
    lastItem,          \* local lastItem: <<>> is nil, else <<item>>
    invResult,         \* returned Inventory (<<>> is nil)
    invErr,            \* returned error: "nil" or the error text
    printed            \* the lines runInv has printed

ivars == <<invLines, invReadErr, totalLength, ipc, lineNo, inventory, lastItem,
           invResult, invErr, printed>>

(***************************************************************************)
(* State of the Tawhiri ordering (ToTawhiris, ByTawhiri, runInv,           *)
(* ReorderGrib2).                                                          *)
(***************************************************************************)
VARIABLES
    twInv,             \* the Inventory handed to ToTawhiris
    noFilter,          \* flag -nofilter of inv (ReorderGrib2 always filters)
    noSort,            \* flag -nosort of inv (ReorderGrib2 always sorts)
    tpc,               \* position in runInv / ReorderGrib2
    tws,               \* local tws: the []*TawhiriItem being worked on
    twOut,             \* inv as FromTawhiris rebuilt it: its items, in order
    \* ReorderGrib2 only
    twCmd,             \* the caller: "inv" (runInv) or "reorder" (ReorderGrib2)
    srcSize,           \* the size of the source file; its bytes are named by
                       \* their offsets 0 .. srcSize-1
    reFail,            \* the call on the file system that fails: "none",
                       \* "open", "create" or "copy"
    copyIdx,           \* position of the copy loop in inv
    destFile,          \* the bytes of the destination file, in order
    reErr              \* returned error: "nil" or the error text

revars == <<twCmd, srcSize, reFail, copyIdx, destFile, reErr>>
tvars == <<twInv, noFilter, noSort, tpc, tws, twOut, revars>>

(***************************************************************************)
(* State of Run.FetchDatasets.                                             *)
(***************************************************************************)
VARIABLES
    docNodes,          \* the nodes of the run's index page, in the order
                       \* walkNodeTree visits them
    runWhenHour,       \* run.When.Hour()
    docFetch,          \* how getAndParse ends: "ok" or "err"
    dpc,               \* position of FetchDatasets
    walkPos,           \* the node the walking goroutine visits next
    dsChanClosed,      \* datasetChan is closed
    datasets,          \* local datasets
    dsResult,          \* returned []*Dataset (<<>> is nil or empty)
    dsErr              \* returned error: "nil" or the error text

dvars == <<docNodes, runWhenHour, docFetch, dpc, walkPos, dsChanClosed, datasets,
           dsResult, dsErr>>

(***************************************************************************)
(* State of Dataset.FetchAndWriteRecords.                                  *)
(***************************************************************************)
VARIABLES
    reqOutcome,        \* how the request would end if left alone: "doErr",
                       \* "badStatus", "copyErr" or "ok"
    bodyLen,           \* number of bytes the response body delivers
    gpc,               \* position of the request-and-copy goroutine
    outBytes,          \* number of bytes written to output so far
    timerPc,           \* position of the timeout goroutine
    chTimeout,         \* channel timeout (capacity 1)
    chFetchErr,        \* channel fetchErr (capacity 1)
    chDone,            \* channel done (capacity 1)
    wpc,               \* position of FetchAndWriteRecords
    wN,                \* returned int64
    wErr,              \* returned error: "nil" or the error text
    wLog               \* the sends on the three channels and the return of
                       \* the call, in the order they happened

wvars == <<reqOutcome, bodyLen, gpc, outBytes, timerPc, chTimeout, chFetchErr, chDone,
           wpc, wN, wErr, wLog>>

(***************************************************************************)
(* State of the extract command (runExtract, extract) and of the interrupt *)
(* handler of cmd/aonui.                                                   *)
(***************************************************************************)
VARIABLES
    exFails,           \* the step of extract that fails: "none", "tempfile",
                       \* "inventory", "copy" or "expand"
    epc,               \* position of the main goroutine in runExtract / extract
    exErr,             \* the error extract returns: "nil" or "err"
    tmpExists,         \* a file named tmpFn exists
    atexitFuncs,       \* number of functions registered with atexit
    esigPc,            \* position of the goroutine handling os.Interrupt
    procState          \* "running", or how the process ended: "exited",
                       \* "fatal" (log.Fatal) or "interrupted"

evars == <<exFails, epc, exErr, tmpExists, atexitFuncs, esigPc, procState>>

(***************************************************************************)
(* State of a TemporaryFileSource used on its own (part_009).              *)
(***************************************************************************)
VARIABLES
    srcFiles,          \* tfs.files, in order
    srcDisk,           \* the files that exist in BaseDir, and the caller's file 0
    srcCreated,        \* how many files Create() has made
    srcCall            \* the last call: what it was given, found and returned

ovars == <<srcFiles, srcDisk, srcCreated, srcCall>>

(***************************************************************************)
(* State of a repeated ReorderGrib2 (part_016).                            *)
(***************************************************************************)
VARIABLES
    rePass             \* 1: the source is the original file; 2: it is the
                       \* output of the first ReorderGrib2

avars == <<rePass>>

\* the library functions that are modelled on their own
libvars == <<ivars, tvars, dvars, wvars, evars, ovars, avars>>

\* libvars without the inventory parser
besideInv == <<tvars, dvars, wvars, evars, ovars, avars>>

\* libvars without the Tawhiri ordering
besideTaw == <<ivars, dvars, wvars, evars, ovars, avars>>

\* libvars without FetchDatasets
besideFd == <<ivars, tvars, wvars, evars, ovars, avars>>

\* libvars without FetchAndWriteRecords
besideFw == <<ivars, tvars, dvars, evars, ovars, avars>>

\* libvars without the extract command
besideEx == <<ivars, tvars, dvars, wvars, ovars, avars>>

\* libvars without the TemporaryFileSource used on its own
besideSrc == <<ivars, tvars, dvars, wvars, evars, avars>>

\* libvars without the repeated ReorderGrib2
besideAgain == <<ivars, tvars, dvars, wvars, evars, ovars>>

vars == <<fvars, svars, libvars>>

(***************************************************************************)
(* Retry executor: getURLWithStrategy.                                     *)
(***************************************************************************)
StatusOK == 200

\* What one http.Get can yield: a response with a status, or a network error.
GetOutcomes ==
    {[err |-> FALSE, status |-> s] : s \in {StatusOK, 404, 500}}
        \cup {[err |-> TRUE, status |-> 0]}

RetriesExhausted == "maximum number of retries exceeded"

\* a tries count taken from the strategy as it is
ClampNoFloor(n) == n

\* nTries := strategy.MaximumRetries; if nTries < 1 { nTries = 1 }
ClampTries(n) == IF n < 1 THEN 1 ELSE n

\* a success test that looks at err only
AttemptOKAnyStatus(o) == ~o.err

\* err == nil && resp.StatusCode == http.StatusOK
AttemptOK(o) == ~o.err /\ o.status = StatusOK

FetchInit ==
    /\ fMaximumRetries \in -1..MaxRetriesBound
    /\ fpc = "entry"
    /\ nTries = 0
    /\ try = 0
    /\ fLog = <<>>
    /\ fResp = 0
    /\ fErr = "nil"

\* lines 25-29: read the strategy, clamp the number of tries
FetchEnter ==
    /\ fpc = "entry"
    /\ nTries' = ClampTries(fMaximumRetries)
    /\ try' = 0
    /\ fpc' = "loop"
    /\ UNCHANGED <<fMaximumRetries, fLog, fResp, fErr>>
    /\ UNCHANGED <<svars, libvars>>

\* lines 32-43: one http.Get; return on success, else log and go to sleep
FetchAttempt ==
    /\ fpc = "loop"
    /\ try < nTries
    /\ \E o \in GetOutcomes :
          /\ fLog' = Append(fLog, [ev |-> "get", err |-> o.err, status |-> o.status])
          /\ IF AttemptOK(o)
                THEN /\ fResp' = o.status
                     /\ fErr' = "nil"
                     /\ fpc' = "done"
                ELSE /\ fpc' = "sleep"
                     /\ UNCHANGED <<fResp, fErr>>
    /\ UNCHANGED <<fMaximumRetries, nTries, try>>
    /\ UNCHANGED <<svars, libvars>>

\* line 45 and the loop increment: time.Sleep(sleepDuration); try++
FetchSleep ==
    /\ fpc = "sleep"
    /\ fLog' = Append(fLog, [ev |-> "sleep", err |-> FALSE, status |-> 0])
    /\ try' = try + 1
    /\ fpc' = "loop"
    /\ UNCHANGED <<fMaximumRetries, nTries, fResp, fErr>>
    /\ UNCHANGED <<svars, libvars>>

\* lines 48-49: the loop ran out
FetchGiveUp ==
    /\ fpc = "loop"
    /\ try >= nTries
    /\ fResp' = 0
    /\ fErr' = RetriesExhausted
    /\ fpc' = "done"
    /\ UNCHANGED <<fMaximumRetries, nTries, try, fLog>>
    /\ UNCHANGED <<svars, libvars>>

FetchNext == FetchEnter \/ FetchAttempt \/ FetchSleep \/ FetchGiveUp

\* derived views of the log
IsGet(e) == e.ev = "get"
IsSleep(e) == e.ev = "sleep"
IsFailedGet(e) == e.ev = "get" /\ (e.err \/ e.status # StatusOK)
Attempts == Cardinality(SelectIdx(fLog, IsGet))
Sleeps == Cardinality(SelectIdx(fLog, IsSleep))
AllAttemptsFailed == \A i \in 1..Len(fLog) : IsGet(fLog[i]) => IsFailedGet(fLog[i])

(***************************************************************************)
(* C1: against a URL for which every attempt fails, getURLWithStrategy     *)
(* makes exactly max(MaximumRetries, 1) GET attempts and then returns the  *)
(* error "maximum number of retries exceeded" with a nil response, for     *)
(* every MaximumRetries including 0 and negative values.                   *)
(***************************************************************************)
C1_ExhaustionAfterMaxAttempts ==
    (fpc = "done" /\ AllAttemptsFailed) =>
        /\ Attempts = (IF fMaximumRetries > 1 THEN fMaximumRetries ELSE 1)
        /\ fErr = RetriesExhausted
        /\ fResp = 0

C1_Witness ==
    /\ fpc = "done"
    /\ AllAttemptsFailed
    /\ fMaximumRetries = 0
    /\ Attempts = 1
    /\ fErr = RetriesExhausted

(***************************************************************************)
(* C2: a response is returned only from an attempt that answered HTTP 200; *)
(* every other status and every network error leads to another attempt     *)
(* while attempts remain; nothing is attempted after the first HTTP 200.   *)
(***************************************************************************)
C2_ResponseOnlyFrom200 ==
    /\ \* a returned response is the 200 answer of the last attempt
       (fResp # 0) =>
          /\ fLog # <<>>
          /\ IsGet(fLog[Len(fLog)]) /\ ~IsFailedGet(fLog[Len(fLog)])
          /\ fResp = StatusOK /\ fErr = "nil"
    /\ \* the first 200 ends the call: nothing follows it in the log
       \A i \in 1..Len(fLog) :
          (IsGet(fLog[i]) /\ ~IsFailedGet(fLog[i])) =>
              (i = Len(fLog) /\ fpc = "done" /\ fResp = StatusOK)
    /\ \* the call gives up only when no attempt remains
       (fpc = "done" /\ fResp = 0) =>
          (fErr = RetriesExhausted /\ Attempts = nTries /\ AllAttemptsFailed)

C2_Witness ==
    /\ fpc = "done"
    /\ fResp = StatusOK
    /\ Attempts = 3
    /\ \E i \in 1..Len(fLog) : IsGet(fLog[i]) /\ ~fLog[i].err /\ fLog[i].status = 500
    /\ \E i \in 1..Len(fLog) : IsGet(fLog[i]) /\ fLog[i].err

(***************************************************************************)
(* C3: the executor sleeps between consecutive attempts only: k attempts   *)
(* give exactly k-1 sleeps and no sleep follows the final failed attempt.  *)
(***************************************************************************)
C3_SleepsOnlyBetweenAttempts ==
    (fpc = "done") =>
        /\ Sleeps = Attempts - 1
        /\ (fLog # <<>> => IsGet(fLog[Len(fLog)]))


(***************************************************************************)
(* The sync pipeline: runSync, syncRun, fetchDatasetsData, the dataset     *)
(* tasks, the closer goroutine and the TemporaryFileSource.                *)
(***************************************************************************)
\* most runs the server's index lists
MaxListed == 3
\* most datasets a run's index lists
MaxDatasets == 2
\* largest -maxruns flag value tried
MaxMaxRuns == 4
\* largest DataSource.MinDatasets tried
MaxMinDatasets == 2
\* largest FetchStrategy.MaximumRetries tried for the dataset tasks
MaxTaskRetries == 2

\* const maximumSimultaneousDownloads = 5
maximumSimultaneousDownloads == 5

Dates == 1..MaxListed
\* enough datasets to use up the download limiter
LimiterDatasets == maximumSimultaneousDownloads + 1
DatasetIds == 1..(IF MaxDatasets > LimiterDatasets THEN MaxDatasets ELSE LimiterDatasets)


\* the goroutines that call the TemporaryFileSource: the dataset tasks and
\* the main goroutine (0)
Goroutines == DatasetIds \cup {0}

NoFile == <<>>
IdleTask == [pc |-> "idle", tries |-> 0, tmpFile |-> NoFile, fetched |-> FALSE]

NoRunsDownloaded == "no runs were downloaded"
TooFewDatasets == "Too few datasets in source"
DiscoveryFailed == RetriesExhausted

\* Bytes already in an output file before the program starts.
OldBytes == <<0>>
\* The records of dataset d that a complete fetch writes to its temporary file.
DatasetBytes(d) == <<d, d>>
\* Datasets of a run are listed with forecast hours 3, 6, 9, ...
ForecastHour(d) == 3 * d

(***************************************************************************)
(* Pure helpers of the pipeline.                                           *)
(***************************************************************************)
\* sort.Sort(sort.Reverse(ByDate(runs))): the runs by descending date
RECURSIVE InsertDesc(_, _)
InsertDesc(s, x) ==
    IF s = <<>> THEN <<x>>
    ELSE IF x > Head(s) THEN <<x>> \o s
    ELSE <<Head(s)>> \o InsertDesc(Tail(s), x)

RECURSIVE SortDesc(_)
SortDesc(s) == IF s = <<>> THEN <<>> ELSE InsertDesc(SortDesc(Tail(s)), Head(s))

\* cap(runs) after FetchRuns appended n runs one at a time to []*Run{}
RECURSIVE GrowCap(_)
GrowCap(n) ==
    IF n = 0 THEN 0
    ELSE LET c == GrowCap(n - 1) IN
         IF n <= c THEN c ELSE IF c = 0 THEN 1 ELSE 2 * c

\* runs[:maxRuns] is a legal slice expression
SliceInRange(n, maxRuns) == maxRuns >= 0 /\ maxRuns <= GrowCap(n)

\* os.IsExist(err), for the errors syncRun can return
IsExist(err) == err = "file exists"

\* a minimum test that is off by one
TooFewOffByOne(n, min) == n <= min

\* len(datasets) < run.Source.MinDatasets
TooFew(n, min) == n < min

\* a filter that also drops the dataset at the maximum forecast hour
SkipForecastInclusive(d, maxHour) == maxHour > 0 /\ ForecastHour(d) >= maxHour

\* ds.Run.Source.MaxForecastHour > 0 && ds.ForecastHour > MaxForecastHour
SkipForecast(d, maxHour) == maxHour > 0 /\ ForecastHour(d) > maxHour

\* tfs.files after Create() appended f
FilesAfterCreate(files, f) == files \cup {f}

\* tfs.files after the loop of Remove(f) cut f out of it
FilesAfterRemove(files, f) == files \ {f}

\* the disk after Remove(f): os.Remove is reached only if f is tracked
DiskAfterRemove(disk, files, f) ==
    IF f \in files
        THEN [g \in (DOMAIN disk) \ {f} |-> disk[g]]
        ELSE disk

\* the disk after RemoveAll(): every tracked file is deleted
DiskAfterRemoveAll(disk, files) ==
    [g \in (DOMAIN disk) \ files |-> disk[g]]

\* the disk after ioutil.TempFile created the empty file f
DiskAfterCreate(disk, f) ==
    [g \in (DOMAIN disk) \cup {f} |-> IF g = f THEN <<>> ELSE disk[g]]

DiskAfterWrite(disk, f, bytes) ==
    [g \in DOMAIN disk |-> IF g = f THEN disk[g] \o bytes ELSE disk[g]]

EmptyDisk == [g \in {} |-> <<>>]

(***************************************************************************)
(* Initial state: the flags, the source's configuration and the output     *)
(* files that earlier invocations left in the base directory.              *)
(***************************************************************************)
SyncStart ==
    /\ pc = "start"
    /\ runs = <<>>
    /\ idx = 1
    /\ succeeded = FALSE
    /\ exitState = "running"
    /\ fatalMsg = ""
    /\ examined = <<>>
    /\ runResult = [r \in Dates |-> "none"]
    /\ outData = [r \in Dates |-> IF r \in outExists THEN OldBytes ELSE <<>>]
    /\ tmpDisk = EmptyDisk
    /\ nDatasets = 0
    /\ spawnIdx = 1
    /\ tfsFiles = {}
    /\ wg = 0
    /\ chanClosed = FALSE
    /\ closerPc = "none"
    /\ recvFile = NoFile
    /\ fetchSem = 0
    /\ task = [d \in DatasetIds |-> IdleTask]
    /\ tfsSeen = [g \in Goroutines |-> {}]
    /\ received = <<>>
    /\ sigPc = "none"

SyncInit ==
    /\ syncMaxRuns \in 0..MaxMaxRuns
    /\ MinDatasets \in 0..MaxMinDatasets
    /\ MaximumRetries \in 0..MaxTaskRetries
    /\ MaxForecastHour \in {0, 3}
    /\ serverRuns = 0..MaxListed
    /\ serverDatasets = 0..MaxDatasets
    /\ serverFetch = {"ok", "err"}
    /\ outExists \in SUBSET Dates
    /\ SyncStart

(***************************************************************************)
(* runSync.                                                                *)
(***************************************************************************)
\* what the root index can list: n distinct runs (dated 1..n) in any order
Listings ==
    {l \in UNION {[1..n -> 1..n] : n \in serverRuns} :
        \A i, j \in DOMAIN l : i # j => l[i] # l[j]}

\* the run the range loop is at
CurRun == runs[idx]

\* lines 78-88: FetchRuns, the sort by descending date, the slice runs[:maxRuns]
RunSyncBegin ==
    /\ pc = "start"
    /\ \/ \* FetchRuns failed: log.Fatal(err)
          /\ pc' = "exited"
          /\ exitState' = "fatal"
          /\ fatalMsg' = DiscoveryFailed
          /\ UNCHANGED runs
       \/ \E l \in Listings :
             /\ runs' = SortDesc(l)
             /\ IF SliceInRange(Len(l), syncMaxRuns)
                   THEN pc' = "loop" /\ UNCHANGED exitState
                   ELSE pc' = "exited" /\ exitState' = "panic"
             /\ UNCHANGED fatalMsg
    /\ UNCHANGED <<idx, succeeded, examined, runResult>>
    /\ UNCHANGED <<libvars, auxvars, fvars, cfgvars, diskvars, pipevars>>

\* line 88: the range loop has passed the last element of runs[:maxRuns]
RunSyncLoopEnd ==
    /\ pc = "loop"
    /\ idx > syncMaxRuns
    /\ pc' = "afterloop"
    /\ UNCHANGED <<runs, idx, succeeded, exitState, fatalMsg, examined, runResult>>
    /\ UNCHANGED <<libvars, auxvars, fvars, cfgvars, diskvars, pipevars>>

\* line 89: an element between len(runs) and maxRuns is nil; run.Identifier
\* dereferences it
RunSyncNilRun ==
    /\ pc = "loop"
    /\ idx <= syncMaxRuns
    /\ idx > Len(runs)
    /\ pc' = "exited"
    /\ exitState' = "panic"
    /\ UNCHANGED <<runs, idx, succeeded, fatalMsg, examined, runResult>>
    /\ UNCHANGED <<libvars, auxvars, fvars, cfgvars, diskvars, pipevars>>

\* a loop that syncs the run although its output file exists
RunSyncSkipOverwrites ==
    /\ pc = "loop"
    /\ idx <= syncMaxRuns
    /\ idx <= Len(runs)
    /\ CurRun \in outExists
    /\ examined' = Append(examined, CurRun)
    /\ pc' = "syncRun"
    /\ UNCHANGED <<runs, idx, succeeded, exitState, fatalMsg, runResult>>
    /\ UNCHANGED <<libvars, auxvars, fvars, cfgvars, diskvars, pipevars>>

\* lines 89-94: the output file exists: "not overwriting", continue
RunSyncSkip ==
    /\ pc = "loop"
    /\ idx <= syncMaxRuns
    /\ idx <= Len(runs)
    /\ CurRun \in outExists
    /\ examined' = Append(examined, CurRun)
    /\ runResult' = [runResult EXCEPT ![CurRun] = "skipped"]
    /\ idx' = idx + 1
    /\ UNCHANGED <<pc, runs, succeeded, exitState, fatalMsg>>
    /\ UNCHANGED <<libvars, auxvars, fvars, cfgvars, diskvars, pipevars>>

\* line 96: the output file does not exist: call syncRun(run, destFn)
RunSyncCall ==
    /\ pc = "loop"
    /\ idx <= syncMaxRuns
    /\ idx <= Len(runs)
    /\ CurRun \notin outExists
    /\ examined' = Append(examined, CurRun)
    /\ pc' = "syncRun"
    /\ UNCHANGED <<runs, idx, succeeded, exitState, fatalMsg, runResult>>
    /\ UNCHANGED <<libvars, auxvars, fvars, cfgvars, diskvars, pipevars>>

\* lines 96-103: syncRun returned err with len(datasets) = n (0 if FetchDatasets
\* failed): log it, remove destFn if os.IsExist(err), go on with the next run
SyncRunFails(n, err) ==
    /\ nDatasets' = n
    /\ runResult' = [runResult EXCEPT ![CurRun] = err]
    /\ outExists' = IF IsExist(err) THEN outExists \ {CurRun} ELSE outExists
    /\ idx' = idx + 1
    /\ pc' = "loop"
    /\ UNCHANGED <<runs, succeeded, exitState, fatalMsg, examined>>
    /\ UNCHANGED <<libvars, auxvars, fvars, cfgvars, outData, tmpDisk>>
    /\ UNCHANGED <<spawnIdx, tfsFiles, wg, chanClosed, closerPc, recvFile, fetchSem,
                   task>>

\* lines 117-148: syncRun up to the download phase.  FetchDatasets fails or
\* lists n datasets; too few of them end the call; otherwise the temporary
\* file source and the (truncated) output file are created.
SyncRunDiscover ==
    /\ pc = "syncRun"
    /\ \E n \in {-1} \cup serverDatasets :
          IF n = -1
             THEN SyncRunFails(0, DiscoveryFailed)
          ELSE IF TooFew(n, MinDatasets)
             THEN SyncRunFails(n, TooFewDatasets)
          ELSE /\ nDatasets' = n
               /\ tfsFiles' = {}
               /\ outExists' = outExists \cup {CurRun}
               /\ outData' = [outData EXCEPT ![CurRun] = <<>>]
               /\ spawnIdx' = 1
               /\ pc' = "spawn"
               /\ UNCHANGED <<runs, idx, succeeded, exitState, fatalMsg, examined,
                              runResult>>
               /\ received' = <<>>
               /\ UNCHANGED <<libvars, fvars, cfgvars, tmpDisk, wg, chanClosed, closerPc, recvFile,
                              fetchSem, task, tfsSeen, sigPc>>

\* lines 112-114: after the loop
RunSyncEnd ==
    /\ pc = "afterloop"
    /\ pc' = "exited"
    /\ IF ~succeeded
          THEN exitState' = "fatal" /\ fatalMsg' = NoRunsDownloaded
          ELSE exitState' = "returned" /\ UNCHANGED fatalMsg
    /\ UNCHANGED <<runs, idx, succeeded, examined, runResult>>
    /\ UNCHANGED <<libvars, auxvars, fvars, cfgvars, diskvars, pipevars>>

(***************************************************************************)
(* fetchDatasetsData: launching the tasks and the closer.                  *)
(***************************************************************************)
\* lines 186-190: the dataset is beyond the maximum forecast hour
SpawnSkip ==
    /\ pc = "spawn"
    /\ spawnIdx <= nDatasets
    /\ SkipForecast(spawnIdx, MaxForecastHour)
    /\ spawnIdx' = spawnIdx + 1
    /\ UNCHANGED <<libvars, auxvars, fvars, cfgvars, mainvars, diskvars>>
    /\ UNCHANGED <<nDatasets, tfsFiles, wg, chanClosed, closerPc, recvFile,
                   fetchSem, task>>

\* lines 192-194: wg.Add(1); go func(dataset) {...}(ds)
SpawnTask ==
    /\ pc = "spawn"
    /\ spawnIdx <= nDatasets
    /\ ~SkipForecast(spawnIdx, MaxForecastHour)
    /\ wg' = wg + 1
    /\ task' = [task EXCEPT ![spawnIdx].pc = "acquire"]
    /\ spawnIdx' = spawnIdx + 1
    /\ UNCHANGED <<libvars, auxvars, fvars, cfgvars, mainvars, diskvars>>
    /\ UNCHANGED <<nDatasets, tfsFiles, chanClosed, closerPc, recvFile, fetchSem>>

\* lines 239-244: launch the closer, return the channel to syncRun's range loop
SpawnCloser ==
    /\ pc = "spawn"
    /\ spawnIdx > nDatasets
    /\ closerPc' = "wait"
    /\ pc' = "drain"
    /\ UNCHANGED <<runs, idx, succeeded, exitState, fatalMsg, examined, runResult>>
    /\ UNCHANGED <<libvars, auxvars, fvars, cfgvars, diskvars>>
    /\ UNCHANGED <<nDatasets, spawnIdx, tfsFiles, wg, chanClosed, recvFile,
                   fetchSem, task>>

\* a closer that does not wait for the tasks
CloserCloseEarly ==
    /\ closerPc = "wait"
    /\ chanClosed' = TRUE
    /\ closerPc' = "done"
    /\ UNCHANGED <<libvars, auxvars, fvars, cfgvars, mainvars, diskvars>>
    /\ UNCHANGED <<nDatasets, spawnIdx, tfsFiles, wg, recvFile, fetchSem, task>>

\* lines 240-241: wg.Wait() returns once the counter is zero; close the channel
CloserClose ==
    /\ closerPc = "wait"
    /\ wg = 0
    /\ chanClosed' = TRUE
    /\ closerPc' = "done"
    /\ UNCHANGED <<libvars, auxvars, fvars, cfgvars, mainvars, diskvars>>
    /\ UNCHANGED <<nDatasets, spawnIdx, tfsFiles, wg, recvFile, fetchSem, task>>

(***************************************************************************)
(* One dataset task (the goroutine of lines 194-234).                      *)
(***************************************************************************)
\* the temporary file of the (tries+1)-th attempt for dataset d
FreshFile(d, tries) == <<d, tries + 1>>

\* an acquire that never blocks
TaskAcquireUnbounded(d) ==
    /\ task[d].pc = "acquire"
    /\ fetchSem' = fetchSem + 1
    /\ task' = [task EXCEPT ![d].pc = "loop"]
    /\ UNCHANGED <<libvars, auxvars, fvars, cfgvars, mainvars, diskvars>>
    /\ UNCHANGED <<nDatasets, spawnIdx, tfsFiles, wg, chanClosed, closerPc, recvFile>>

\* line 197: fetchSem <- 1 blocks while the channel's buffer is full
TaskAcquire(d) ==
    /\ task[d].pc = "acquire"
    /\ fetchSem < maximumSimultaneousDownloads
    /\ fetchSem' = fetchSem + 1
    /\ task' = [task EXCEPT ![d].pc = "loop"]
    /\ UNCHANGED <<libvars, auxvars, fvars, cfgvars, mainvars, diskvars>>
    /\ UNCHANGED <<nDatasets, spawnIdx, tfsFiles, wg, chanClosed, closerPc, recvFile>>

\* lines 203-206: another try is due: tfs.Create() makes and tracks a new file
TaskCreate(d) ==
    /\ task[d].pc = "loop"
    /\ task[d].tries < MaximumRetries
    /\ LET f == FreshFile(d, task[d].tries) IN
          /\ tmpDisk' = DiskAfterCreate(tmpDisk, f)
          /\ tfsFiles' = FilesAfterCreate(tfsFiles, f)
          /\ task' = [task EXCEPT ![d].pc = "fetch", ![d].tmpFile = f]
    /\ UNCHANGED <<libvars, auxvars, fvars, cfgvars, mainvars, outExists, outData>>
    /\ UNCHANGED <<nDatasets, spawnIdx, wg, chanClosed, closerPc, recvFile, fetchSem>>

\* lines 205-225 when tfs.Create() fails: the error is logged and the try
\* goes on with a nil tmpFile; fetchDataset cannot write the dataset's
\* records to it and returns an error; Close and Remove of the nil file
\* change nothing; tmpFile = nil, sleep, tries++
TaskCreateFail(d) ==
    /\ task[d].pc = "loop"
    /\ task[d].tries < MaximumRetries
    /\ task' = [task EXCEPT ![d].tmpFile = NoFile, ![d].tries = @ + 1]
    /\ UNCHANGED <<libvars, auxvars, fvars, cfgvars, mainvars, diskvars>>
    /\ UNCHANGED <<nDatasets, spawnIdx, tfsFiles, wg, chanClosed, closerPc, recvFile,
                   fetchSem>>

\* lines 228-233: after the loop: nothing to publish if tmpFile is nil, else
\* close the file and send it on tmpFilesChan
AfterLoop(tmpFile) == IF tmpFile = NoFile THEN "release" ELSE "publish"

\* line 203: the loop ends because tries reached maximumTries
TaskExhausted(d) ==
    /\ task[d].pc = "loop"
    /\ task[d].tries >= MaximumRetries
    /\ task' = [task EXCEPT ![d].pc = AfterLoop(task[d].tmpFile)]
    /\ UNCHANGED <<libvars, auxvars, fvars, cfgvars, mainvars, diskvars>>
    /\ UNCHANGED <<nDatasets, spawnIdx, tfsFiles, wg, chanClosed, closerPc, recvFile,
                   fetchSem>>

\* lines 212-214: fetchDataset wrote the dataset's records and returned nil: break
TaskFetchOK(d) ==
    /\ task[d].pc = "fetch"
    /\ "ok" \in serverFetch
    /\ tmpDisk' = DiskAfterWrite(tmpDisk, task[d].tmpFile, DatasetBytes(d))
    /\ task' = [task EXCEPT ![d].pc = AfterLoop(task[d].tmpFile),
                            ![d].fetched = TRUE]
    /\ UNCHANGED <<libvars, auxvars, fvars, cfgvars, mainvars, outExists, outData>>
    /\ UNCHANGED <<nDatasets, spawnIdx, tfsFiles, wg, chanClosed, closerPc, recvFile,
                   fetchSem>>

\* a failed attempt that forgets to discard its file: the partly written
\* file stays, still referred to by tmpFile
TaskFetchFailKeepsFile(d) ==
    /\ task[d].pc = "fetch"
    /\ "err" \in serverFetch
    /\ tmpDisk' = DiskAfterWrite(tmpDisk, task[d].tmpFile, <<d>>)
    /\ task' = [task EXCEPT ![d].pc = "loop", ![d].tries = @ + 1]
    /\ UNCHANGED <<libvars, auxvars, fvars, cfgvars, mainvars, outExists, outData>>
    /\ UNCHANGED <<nDatasets, spawnIdx, tfsFiles, wg, chanClosed, closerPc, recvFile,
                   fetchSem>>

\* lines 215-225: fetchDataset returned an error (whatever it wrote goes away
\* with the file): close and remove the file, forget it, sleep, tries++
TaskFetchFail(d) ==
    /\ task[d].pc = "fetch"
    /\ "err" \in serverFetch
    /\ tfsFiles' = FilesAfterRemove(tfsFiles, task[d].tmpFile)
    /\ tmpDisk' = DiskAfterRemove(tmpDisk, tfsFiles, task[d].tmpFile)
    /\ task' = [task EXCEPT ![d].pc = "loop", ![d].tmpFile = NoFile,
                            ![d].tries = @ + 1]
    /\ UNCHANGED <<libvars, auxvars, fvars, cfgvars, mainvars, outExists, outData>>
    /\ UNCHANGED <<nDatasets, spawnIdx, wg, chanClosed, closerPc, recvFile, fetchSem>>

\* a task that ends without giving its permit back
TaskReleaseKeepsPermit(d) ==
    /\ task[d].pc = "release"
    /\ task' = [task EXCEPT ![d].pc = "wgdone"]
    /\ UNCHANGED <<libvars, auxvars, fvars, cfgvars, mainvars, diskvars>>
    /\ UNCHANGED <<nDatasets, spawnIdx, tfsFiles, wg, chanClosed, closerPc, recvFile,
                   fetchSem>>

\* line 198 (deferred): <-fetchSem
TaskRelease(d) ==
    /\ task[d].pc = "release"
    /\ fetchSem' = fetchSem - 1
    /\ task' = [task EXCEPT ![d].pc = "wgdone"]
    /\ UNCHANGED <<libvars, auxvars, fvars, cfgvars, mainvars, diskvars>>
    /\ UNCHANGED <<nDatasets, spawnIdx, tfsFiles, wg, chanClosed, closerPc, recvFile>>

\* line 195 (deferred): wg.Done()
TaskDone(d) ==
    /\ task[d].pc = "wgdone"
    /\ wg' = wg - 1
    /\ task' = [task EXCEPT ![d].pc = "finished"]
    /\ UNCHANGED <<libvars, auxvars, fvars, cfgvars, mainvars, diskvars>>
    /\ UNCHANGED <<nDatasets, spawnIdx, tfsFiles, chanClosed, closerPc, recvFile,
                   fetchSem>>

(***************************************************************************)
(* syncRun's drain loop (lines 150-172) and its return to runSync.         *)
(***************************************************************************)
\* line 152: the range loop receives the file a task is sending (the channel
\* is unbuffered: the send of line 232 completes with this receive)
DrainRecv(d) ==
    /\ pc = "drain"
    /\ task[d].pc = "publish"
    /\ recvFile' = task[d].tmpFile
    /\ received' = Append(received, task[d].tmpFile)
    /\ task' = [task EXCEPT ![d].pc = "release"]
    /\ pc' = "copy"
    /\ UNCHANGED <<runs, idx, succeeded, exitState, fatalMsg, examined, runResult>>
    /\ UNCHANGED <<libvars, fvars, cfgvars, diskvars, tfsSeen, sigPc>>
    /\ UNCHANGED <<nDatasets, spawnIdx, tfsFiles, wg, chanClosed, closerPc, fetchSem>>

\* lines 153-158: open the temporary file and io.Copy it to the output
DrainCopy ==
    /\ pc = "copy"
    /\ outData' = IF recvFile \in DOMAIN tmpDisk
                     THEN [outData EXCEPT ![CurRun] = @ \o tmpDisk[recvFile]]
                     ELSE outData
    /\ pc' = "remove"
    /\ UNCHANGED <<runs, idx, succeeded, exitState, fatalMsg, examined, runResult>>
    /\ UNCHANGED <<libvars, auxvars, fvars, cfgvars, outExists, tmpDisk, pipevars>>

\* line 159: tfs.Remove(f)
DrainRemove ==
    /\ pc = "remove"
    /\ tfsFiles' = FilesAfterRemove(tfsFiles, recvFile)
    /\ tmpDisk' = DiskAfterRemove(tmpDisk, tfsFiles, recvFile)
    /\ recvFile' = NoFile
    /\ pc' = "drain"
    /\ UNCHANGED <<runs, idx, succeeded, exitState, fatalMsg, examined, runResult>>
    /\ UNCHANGED <<libvars, auxvars, fvars, cfgvars, outExists, outData>>
    /\ UNCHANGED <<nDatasets, spawnIdx, wg, chanClosed, closerPc, fetchSem, task>>

\* lines 160-171 and 104-108: the channel is closed, so the range loop ends;
\* syncRun stats the output, runs its deferred output.Close() and
\* tfs.RemoveAll() and returns nil; runSync sets succeeded and breaks
DrainEnd ==
    /\ pc = "drain"
    /\ chanClosed
    /\ tmpDisk' = DiskAfterRemoveAll(tmpDisk, tfsFiles)
    /\ runResult' = [runResult EXCEPT ![CurRun] = "ok"]
    /\ succeeded' = TRUE
    /\ pc' = "afterloop"
    /\ UNCHANGED <<runs, idx, exitState, fatalMsg, examined>>
    /\ UNCHANGED <<libvars, auxvars, fvars, cfgvars, outExists, outData, pipevars>>

(***************************************************************************)
(* The TemporaryFileSource without mutual exclusion.  tfs.files is an      *)
(* unguarded field that the dataset tasks (Create, Remove) and the main    *)
(* goroutine (Remove) update by load-modify-store, so a call can be        *)
(* overtaken between its load and its store.  The actions below are the    *)
(* calls of TaskCreate, TaskFetchFail and DrainRemove cut at that point.   *)
(***************************************************************************)
\* lines 203-205, part_009 55-60: ioutil.TempFile makes the file; append loads
\* tfs.files
TaskCreateLoad(d) ==
    /\ task[d].pc = "loop"
    /\ task[d].tries < MaximumRetries
    /\ tmpDisk' = DiskAfterCreate(tmpDisk, FreshFile(d, task[d].tries))
    /\ tfsSeen' = [tfsSeen EXCEPT ![d] = tfsFiles]
    /\ task' = [task EXCEPT ![d].pc = "append"]
    /\ UNCHANGED <<libvars, fvars, cfgvars, mainvars, outExists, outData, received, sigPc>>
    /\ UNCHANGED <<nDatasets, spawnIdx, tfsFiles, wg, chanClosed, closerPc, recvFile,
                   fetchSem>>

\* part_009 60-61, line 205: append stores the extended slice in tfs.files;
\* Create returns the file, which becomes tmpFile
TaskCreateStore(d) ==
    /\ task[d].pc = "append"
    /\ LET f == FreshFile(d, task[d].tries) IN
          /\ tfsFiles' = FilesAfterCreate(tfsSeen[d], f)
          /\ task' = [task EXCEPT ![d].pc = "fetch", ![d].tmpFile = f]
    /\ tfsSeen' = [tfsSeen EXCEPT ![d] = {}]
    /\ UNCHANGED <<libvars, fvars, cfgvars, mainvars, diskvars, received, sigPc>>
    /\ UNCHANGED <<nDatasets, spawnIdx, wg, chanClosed, closerPc, recvFile, fetchSem>>

\* what Remove(f) stores in tfs.files after having loaded seen: the slice
\* without f if it found f, else nothing is stored
FilesAfterRemoveOf(files, seen, f) ==
    IF f \in seen THEN FilesAfterRemove(seen, f) ELSE files

\* lines 215-221, part_009 68-70: fetchDataset returned an error; the file is
\* closed and Remove searches tfs.files for it
TaskFetchFailLoad(d) ==
    /\ task[d].pc = "fetch"
    /\ "err" \in serverFetch
    /\ tfsSeen' = [tfsSeen EXCEPT ![d] = tfsFiles]
    /\ task' = [task EXCEPT ![d].pc = "cut"]
    /\ UNCHANGED <<libvars, fvars, cfgvars, mainvars, diskvars, received, sigPc>>
    /\ UNCHANGED <<nDatasets, spawnIdx, tfsFiles, wg, chanClosed, closerPc, recvFile,
                   fetchSem>>

\* part_009 74-79, lines 222-225: Remove stores the shortened slice and deletes
\* the file; tmpFile = nil, sleep, tries++
TaskRemoveStore(d) ==
    /\ task[d].pc = "cut"
    /\ tfsFiles' = FilesAfterRemoveOf(tfsFiles, tfsSeen[d], task[d].tmpFile)
    /\ tmpDisk' = DiskAfterRemove(tmpDisk, tfsSeen[d], task[d].tmpFile)
    /\ tfsSeen' = [tfsSeen EXCEPT ![d] = {}]
    /\ task' = [task EXCEPT ![d].pc = "loop", ![d].tmpFile = NoFile,
                            ![d].tries = @ + 1]
    /\ UNCHANGED <<libvars, fvars, cfgvars, mainvars, outExists, outData, received, sigPc>>
    /\ UNCHANGED <<nDatasets, spawnIdx, wg, chanClosed, closerPc, recvFile, fetchSem>>

\* line 159, part_009 68-70: tfs.Remove(f) searches tfs.files for f
DrainRemoveLoad ==
    /\ pc = "remove"
    /\ tfsSeen' = [tfsSeen EXCEPT ![0] = tfsFiles]
    /\ pc' = "cut"
    /\ UNCHANGED <<runs, idx, succeeded, exitState, fatalMsg, examined, runResult>>
    /\ UNCHANGED <<libvars, fvars, cfgvars, diskvars, pipevars, received, sigPc>>

\* part_009 74-79: Remove stores the shortened slice and deletes the file
DrainRemoveStore ==
    /\ pc = "cut"
    /\ tfsFiles' = FilesAfterRemoveOf(tfsFiles, tfsSeen[0], recvFile)
    /\ tmpDisk' = DiskAfterRemove(tmpDisk, tfsSeen[0], recvFile)
    /\ tfsSeen' = [tfsSeen EXCEPT ![0] = {}]
    /\ recvFile' = NoFile
    /\ pc' = "drain"
    /\ UNCHANGED <<runs, idx, succeeded, exitState, fatalMsg, examined, runResult>>
    /\ UNCHANGED <<libvars, fvars, cfgvars, outExists, outData, received, sigPc>>
    /\ UNCHANGED <<nDatasets, spawnIdx, wg, chanClosed, closerPc, fetchSem, task>>

(***************************************************************************)
(* The keyboard interrupt (main.go lines 39-48 and 81-92): a goroutine     *)
(* receives os.Interrupt and calls exit(), which runs the functions given  *)
(* to atexit (syncRun registers tfs.RemoveAll, line 137) and then          *)
(* os.Exit.  The other goroutines go on running until os.Exit.             *)
(***************************************************************************)
\* main.go lines 44-46: the signal arrives while the command runs
Interrupt ==
    /\ sigPc = "none"
    /\ exitState = "running"
    /\ sigPc' = "cleanup"
    /\ UNCHANGED <<libvars, fvars, cfgvars, mainvars, diskvars, pipevars, tfsSeen, received>>

\* main.go lines 88-90: the registered functions run: tfs.RemoveAll()
HandlerRemoveAll ==
    /\ sigPc = "cleanup"
    /\ exitState = "running"
    /\ tmpDisk' = DiskAfterRemoveAll(tmpDisk, tfsFiles)
    /\ sigPc' = "exit"
    /\ UNCHANGED <<libvars, fvars, cfgvars, mainvars, outExists, outData, pipevars, tfsSeen,
                   received>>

\* a goroutine that os.Exit stopped in the middle of its work
Killed(t) == IF t.pc \in {"idle", "finished"} THEN t ELSE [t EXCEPT !.pc = "killed"]

\* main.go line 91: os.Exit(exitStatus) ends the process and with it every
\* goroutine
HandlerExit ==
    /\ sigPc = "exit"
    /\ exitState = "running"
    /\ sigPc' = "done"
    /\ exitState' = "interrupted"
    /\ pc' = "exited"
    /\ task' = [d \in DatasetIds |-> Killed(task[d])]
    /\ closerPc' = IF closerPc = "wait" THEN "killed" ELSE closerPc
    /\ UNCHANGED <<runs, idx, succeeded, fatalMsg, examined, runResult>>
    /\ UNCHANGED <<libvars, fvars, cfgvars, diskvars, tfsSeen, received>>
    /\ UNCHANGED <<nDatasets, spawnIdx, tfsFiles, wg, chanClosed, recvFile, fetchSem>>

(***************************************************************************)
(* The inventory parser: ParseInventory (inventory.go lines 61-163).       *)
(*                                                                         *)
(* A line of the index is kept as what the parser reads off it: the number *)
(* of colon-separated fields, the parts of the record id, the offset, the  *)
(* parameter name, whether its numbers parse and whether its date field    *)
(* matches d=YYYYMMDDHH.                                                   *)
(***************************************************************************)
\* most lines in an index
MaxLines == 3
\* largest offset written in an index
MaxOffset == 2
\* largest totalLength passed
MaxTotalLength == 3

\* the parameter names of the lines of an index, by line
ParamNames == <<"HGT", "UGRD", "VGRD", "TMP", "RH">>

TooFewFields == "Inventory record has too few fields"
InvalidNumber == "invalid syntax"
InvalidDateField == "Invalid date field format"
UnexpectedSubrecord == "Unexpected sub-record number >1"
ReadFailed == "read error"

\* lines that pass every check of the loop body: "N:off:..." (one id part)
\* and "N.M:off:..." with M = 0, 1, 2
GoodLines ==
    {[nf |-> 7, nids |-> n, sub |-> m, numOK |-> TRUE, off |-> o, dateOK |-> TRUE] :
        n \in {2}, m \in 0..2, o \in 0..MaxOffset}
    \cup
    {[nf |-> 7, nids |-> 1, sub |-> 0, numOK |-> TRUE, off |-> o, dateOK |-> TRUE] :
        o \in 0..MaxOffset}

\* lines with one defect: a field missing, a number that does not parse, a
\* date field of another form
BadLines ==
    {[nf |-> 6, nids |-> 1, sub |-> 0, numOK |-> TRUE, off |-> 0, dateOK |-> TRUE],
     [nf |-> 7, nids |-> 1, sub |-> 0, numOK |-> FALSE, off |-> 0, dateOK |-> TRUE],
     [nf |-> 7, nids |-> 1, sub |-> 0, numOK |-> TRUE, off |-> 0, dateOK |-> FALSE]}

\* the i-th line of an index: records are numbered by line, and fields[3]
\* is the i-th parameter name
LineAt(l, i) ==
    [nf |-> l.nf, nids |-> l.nids, sub |-> l.sub, numOK |-> l.numOK, off |-> l.off,
     dateOK |-> l.dateOK, rec |-> i, param |-> ParamNames[i],
     when |-> <<2014, 1, 1, 0>>, layer |-> <<"500 mb">>, type |-> <<"anl">>, fac |-> 0]

InvInit ==
    /\ \E n \in 0..MaxLines : \E ls \in [1..n -> GoodLines \cup BadLines] :
          invLines = [i \in 1..n |-> LineAt(ls[i], i)]
    /\ invReadErr \in {"none", "end"} \cup (IF invLines # <<>> THEN {"token"} ELSE {})
    /\ totalLength \in 0..MaxTotalLength
    /\ ipc = "scan"
    /\ lineNo = 1
    /\ inventory = <<>>
    /\ lastItem = <<>>
    /\ invResult = <<>>
    /\ invErr = "nil"
    /\ printed = <<>>

\* lines 85-103: subRecord := 1, replaced by the second part of the id if
\* there is one
SubRecord(line) == IF line.nids > 1 THEN line.sub ELSE 1

\* an extent that forgets to subtract the item's own offset
ExtentToWhole(nextOffset, offset) == nextOffset

\* line 139: lastItem.Extent = item.Offset - lastItem.Offset
ExtentTo(nextOffset, offset) == nextOffset - offset

\* a final extent that is the whole length
LastExtentWhole(total, offset) == total

\* line 158: lastItem.Extent = totalLength - lastItem.Offset
LastExtent(total, offset) == total - offset

\* a parameter put in front of the list
PrependParam(params, p) == <<p>> \o params

\* line 150: append(lastItem.Parameters, fields[3])
AppendParam(params, p) == Append(params, p)

\* lines 78, 94, 101, 108, 114, 122, 147: return nil, err
ErrorResult(inv) == <<>>

\* the first check of the loop body (lines 76-124) that line fails, or "nil"
LineError(line) ==
    IF line.nf < 7 THEN TooFewFields
    ELSE IF ~line.numOK THEN InvalidNumber
    ELSE IF ~line.dateOK THEN InvalidDateField
    ELSE "nil"

\* lines 128-136: the item a base line starts
NewItem(line) ==
    [RecordNumber |-> line.rec, Offset |-> line.off, Extent |-> 0,
     When |-> line.when, Parameters |-> <<line.param>>, LayerName |-> line.layer,
     TypeName |-> line.type, FieldAverageCount |-> line.fac]

\* lines 71-73: scanner.Err() inside the loop is not nil only for a line
\* that Scan delivered after the read had failed: the rest of the buffer
ScannerErr(n) ==
    IF invReadErr = "token" /\ n = Len(invLines) THEN ReadFailed ELSE "nil"

\* lines 70-154: scanner.Scan() delivered a line; one pass through the loop
\* body
ParseLine ==
    /\ ipc = "scan"
    /\ lineNo <= Len(invLines)
    /\ LET line == invLines[lineNo]
           err == IF ScannerErr(lineNo) # "nil" THEN ScannerErr(lineNo)
                  ELSE IF LineError(line) # "nil" THEN LineError(line)
                  ELSE IF SubRecord(line) # 1 /\ lastItem = <<>>
                     THEN UnexpectedSubrecord
                  ELSE "nil"
       IN IF err # "nil"
             THEN /\ invResult' = ErrorResult(inventory)
                  /\ invErr' = err
                  /\ ipc' = "done"
                  /\ UNCHANGED <<inventory, lastItem, lineNo>>
          ELSE IF SubRecord(line) = 1
             THEN /\ inventory' =
                        IF lastItem # <<>>
                           THEN Append(inventory,
                                  [lastItem[1] EXCEPT
                                     !.Extent = ExtentTo(line.off, lastItem[1].Offset)])
                           ELSE inventory
                  /\ lastItem' = <<NewItem(line)>>
                  /\ lineNo' = lineNo + 1
                  /\ UNCHANGED <<ipc, invResult, invErr>>
          ELSE /\ lastItem' =
                     <<[lastItem[1] EXCEPT
                          !.Parameters = AppendParam(@, line.param)]>>
               /\ lineNo' = lineNo + 1
               /\ UNCHANGED <<ipc, inventory, invResult, invErr>>
    /\ UNCHANGED <<invLines, invReadErr, totalLength, printed>>
    /\ UNCHANGED <<fvars, svars, besideInv>>

\* lines 70 and 156-162: scanner.Scan() returned false, at the end of the
\* stream or on an error that left it no line to deliver (scanner.Err() is
\* not looked at here); the final item is appended and the inventory returned
ParseFinish ==
    /\ ipc = "scan"
    /\ lineNo > Len(invLines)
    /\ inventory' =
          IF lastItem # <<>>
             THEN Append(inventory,
                    [lastItem[1] EXCEPT
                       !.Extent = LastExtent(totalLength, lastItem[1].Offset)])
             ELSE inventory
    /\ invResult' = inventory'
    /\ invErr' = "nil"
    /\ ipc' = "done"
    /\ UNCHANGED <<invLines, invReadErr, totalLength, lineNo, lastItem, printed>>
    /\ UNCHANGED <<fvars, svars, besideInv>>

InvNext == ParseLine \/ ParseFinish

(***************************************************************************)
(* The Tawhiri ordering: ToTawhiri, ByTawhiri (part_016), as used by the   *)
(* inv command (runInv, part_010) and by ReorderGrib2.                     *)
(*                                                                         *)
(* A string is kept as the sequence of the pieces that the code's suffix   *)
(* tests and number parses tell apart: "6 hour fcst" is <<"6", " hour      *)
(* fcst">>.  An *InventoryItem is named by its record number.              *)
(***************************************************************************)
\* most items in an inventory handed to ToTawhiris
MaxItems == 3

fcstSuffix == " hour fcst"
pressureSuffix == " mb"

\* strings.HasSuffix(s, suffix), for a suffix that is one piece
HasSuffix(s, suffix) == Len(s) > 0 /\ s[Len(s)] = suffix

\* strings.TrimSuffix(s, suffix)
TrimSuffix(s, suffix) == IF HasSuffix(s, suffix) THEN SubSeq(s, 1, Len(s) - 1) ELSE s

\* the decimal numerals that occur in the layer and type names of the model
Numerals == {"0", "1", "2", "3", "6", "850", "1000", "00", "06", "003"}

\* strconv.Atoi(s): the value and whether err is nil; the value is 0 when it
\* is not
Atoi(s) ==
    IF Len(s) = 1 /\ s[1] \in Numerals
       THEN [val |-> CASE s[1] = "0" -> 0
                       [] s[1] = "1" -> 1
                       [] s[1] = "2" -> 2
                       [] s[1] = "3" -> 3
                       [] s[1] = "6" -> 6
                       [] s[1] = "850" -> 850
                       [] s[1] = "1000" -> 1000
                       [] s[1] = "00" -> 0
                       [] s[1] = "06" -> 6
                       [] s[1] = "003" -> 3,
             ok |-> TRUE]
       ELSE [val |-> 0, ok |-> FALSE]

\* values of InventoryItem.TypeName: "anl", "6 hour fcst", "x hour fcst",
\* "surface"
TypeNames == {<<"anl">>, <<"6", fcstSuffix>>, <<"x", fcstSuffix>>, <<"surface">>}

\* values of InventoryItem.LayerName: "1000 mb", "850 mb", "surface"
LayerNames == {<<"1000", pressureSuffix>>, <<"850", pressureSuffix>>, <<"surface">>}

\* type names and layer names that both parse
GoodTypeNames == {<<"anl">>, <<"6", fcstSuffix>>}
GoodLayerNames == {<<"1000", pressureSuffix>>, <<"850", pressureSuffix>>}

\* what the items of an inventory look like: every type name with every
\* layer name, a layer "x mb", the wind components on every parsing pair,
\* another parameter, and an item without parameters
ItemShapes ==
    {[Parameters |-> <<"HGT">>, TypeName |-> t, LayerName |-> l] :
        t \in TypeNames, l \in LayerNames}
    \cup {[Parameters |-> <<"HGT">>, TypeName |-> <<"anl">>,
           LayerName |-> <<"x", pressureSuffix>>]}
    \cup {[Parameters |-> <<"UGRD">>, TypeName |-> t, LayerName |-> l] :
            t \in GoodTypeNames, l \in GoodLayerNames}
    \cup {[Parameters |-> p, TypeName |-> <<"anl">>,
           LayerName |-> <<"1000", pressureSuffix>>] :
            p \in {<<"VGRD">>, <<"TMP">>, <<"TMP", "HGT">>, <<>>}}

\* the sum of the first n elements of a sequence of numbers
RECURSIVE SumTo(_, _)
SumTo(s, n) == IF n = 0 THEN 0 ELSE SumTo(s, n - 1) + s[n]

\* the i-th item of an inventory, of shape sh, in a file whose records have
\* the lengths exts: wgrib2 lists the records of a file in file order, and
\* ParseInventory gives each the extent up to the next offset, the last up
\* to the size of the file
ItemAt(sh, i, exts) ==
    [RecordNumber |-> i, Offset |-> SumTo(exts, i - 1), Extent |-> exts[i],
     Parameters |-> sh.Parameters, TypeName |-> sh.TypeName,
     LayerName |-> sh.LayerName]

\* part_016 lines 33-46: the switch on item.Parameters[0] has no default, so
\* a name it does not list leaves ParamIdx at the zero value of the struct
\* literal of line 32
ParamIdxOf(params) ==
    IF Len(params) > 0
       THEN CASE params[1] = "HGT" -> 0
              [] params[1] = "UGRD" -> 1
              [] params[1] = "VGRD" -> 2
              [] OTHER -> 0
       ELSE 3

\* part_016 lines 48-62: the forecast hour and whether it parsed
ParseForecastHour(typeName) ==
    IF typeName = <<"anl">> THEN [val |-> 0, ok |-> TRUE]
    ELSE IF HasSuffix(typeName, fcstSuffix)
       THEN Atoi(TrimSuffix(typeName, fcstSuffix))
    ELSE [val |-> 0, ok |-> FALSE]

\* part_016 lines 64-74: the pressure and whether it parsed
ParsePressure(layerName) ==
    IF HasSuffix(layerName, pressureSuffix)
       THEN Atoi(TrimSuffix(layerName, pressureSuffix))
    ELSE [val |-> 0, ok |-> FALSE]

\* a validity that looks at the forecast hour only
IsValidTypeOnly(fh, pr) == fh.ok

\* part_016 lines 32, 57-61, 69-74: IsValid starts true and is cleared by
\* either parse failing
IsValidBoth(fh, pr) == fh.ok /\ pr.ok

\* part_016 lines 26-77
ToTawhiri(item) ==
    [Item |-> item.RecordNumber,
     ForecastHour |-> ParseForecastHour(item.TypeName).val,
     Pressure |-> ParsePressure(item.LayerName).val,
     ParamIdx |-> ParamIdxOf(item.Parameters),
     IsValid |-> IsValidBoth(ParseForecastHour(item.TypeName),
                             ParsePressure(item.LayerName))]

\* part_016 lines 81-87
ToTawhiris(items) == [i \in 1..Len(items) |-> ToTawhiri(items[i])]

\* a comparison that also puts an item before its equals
LessOrEqual(i1, i2) ==
    IF i1.IsValid /\ ~i2.IsValid THEN TRUE
    ELSE IF ~i1.IsValid THEN FALSE
    ELSE IF i1.ForecastHour < i2.ForecastHour THEN TRUE
    ELSE IF i1.ForecastHour > i2.ForecastHour THEN FALSE
    ELSE IF i1.Pressure > i2.Pressure THEN TRUE
    ELSE IF i1.Pressure < i2.Pressure THEN FALSE
    ELSE i1.ParamIdx <= i2.ParamIdx

\* part_016 lines 101-143: ByTawhiri.Less on the elements i1 = a[i], i2 = a[j]
Less(i1, i2) ==
    IF i1.IsValid /\ ~i2.IsValid THEN TRUE
    ELSE IF ~i1.IsValid THEN FALSE
    ELSE IF i1.ForecastHour < i2.ForecastHour THEN TRUE
    ELSE IF i1.ForecastHour > i2.ForecastHour THEN FALSE
    ELSE IF i1.Pressure > i2.Pressure THEN TRUE
    ELSE IF i1.Pressure < i2.Pressure THEN FALSE
    ELSE IF i1.ParamIdx < i2.ParamIdx THEN TRUE
    ELSE FALSE

\* the rearrangements of a slice
Rearrangements(s) ==
    {[i \in 1..Len(s) |-> s[p[i]]] :
        p \in {q \in [1..Len(s) -> 1..Len(s)] :
                 \A i, j \in 1..Len(s) : i # j => q[i] # q[j]}}

\* no element is Less than one placed before it
IsSorted(s) == \A i, j \in 1..Len(s) : i < j => ~Less(s[j], s[i])

\* part_010 line 87, part_016 line 167: what sort.Sort(ByTawhiri(tws)) may
\* leave in tws.  sort.Sort promises a sorted rearrangement and says nothing
\* about the order of elements neither of which is Less than the other
\* (that is sort.Stable, which the code does not call)
SortResults(s) == {r \in Rearrangements(s) : IsSorted(r)}

\* part_010 lines 75-81, part_016 lines 157-163: the elements with IsValid
FilterValid(s) == SelectSeq(s, LAMBDA tw : tw.IsValid)

\* part_016 lines 79, 89-95: FromTawhiris gives back the items pointed to
FromTawhiris(s) == [i \in 1..Len(s) |-> s[i].Item]

\* nothing of the copy of ReorderGrib2 has happened
ReStart ==
    /\ copyIdx = 1
    /\ destFile = <<>>
    /\ reErr = "nil"

\* runInv with the inventory loaded: records of one byte each
TawInit ==
    /\ \E n \in 0..MaxItems : \E shapes \in [1..n -> ItemShapes] :
          /\ twInv = [i \in 1..n |-> ItemAt(shapes[i], i, [j \in 1..n |-> 1])]
          /\ srcSize = n
    /\ noFilter \in BOOLEAN
    /\ noSort \in BOOLEAN
    /\ tpc = "parse"
    /\ tws = <<>>
    /\ twOut = <<>>
    /\ twCmd = "inv"
    /\ reFail = "none"
    /\ ReStart

\* part_010 line 72, part_016 line 155: tws := ToTawhiris(inv)
TawParse ==
    /\ tpc = "parse"
    /\ tws' = ToTawhiris(twInv)
    /\ tpc' = "filter"
    /\ UNCHANGED <<twInv, noFilter, noSort, twOut>>
    /\ UNCHANGED revars
    /\ UNCHANGED <<fvars, svars, besideTaw>>

\* part_010 lines 75-83, part_016 lines 157-163: the invalid items are
\* dropped
TawFilter ==
    /\ tpc = "filter"
    /\ ~noFilter
    /\ tws' = FilterValid(tws)
    /\ tpc' = "sort"
    /\ UNCHANGED <<twInv, noFilter, noSort, twOut>>
    /\ UNCHANGED revars
    /\ UNCHANGED <<fvars, svars, besideTaw>>

\* part_010 line 75: -nofilter
TawFilterSkip ==
    /\ tpc = "filter"
    /\ noFilter
    /\ tpc' = "sort"
    /\ UNCHANGED <<twInv, noFilter, noSort, tws, twOut>>
    /\ UNCHANGED revars
    /\ UNCHANGED <<fvars, svars, besideTaw>>

\* part_010 lines 86-88, part_016 line 167: sort.Sort(ByTawhiri(tws))
TawSort ==
    /\ tpc = "sort"
    /\ ~noSort
    /\ tws' \in SortResults(tws)
    /\ tpc' = "deparse"
    /\ UNCHANGED <<twInv, noFilter, noSort, twOut>>
    /\ UNCHANGED revars
    /\ UNCHANGED <<fvars, svars, besideTaw>>

\* part_010 line 86: -nosort
TawSortSkip ==
    /\ tpc = "sort"
    /\ noSort
    /\ tpc' = "deparse"
    /\ UNCHANGED <<twInv, noFilter, noSort, tws, twOut>>
    /\ UNCHANGED revars
    /\ UNCHANGED <<fvars, svars, besideTaw>>

\* part_010 line 91, part_016 line 170: inv = FromTawhiris(tws)
TawDeparse ==
    /\ tpc = "deparse"
    /\ twOut' = FromTawhiris(tws)
    /\ tpc' = "output"
    /\ UNCHANGED <<twInv, noFilter, noSort, tws>>
    /\ UNCHANGED revars
    /\ UNCHANGED <<fvars, svars, besideTaw>>

\* the shapes of the records of a file handed to ReorderGrib2: records that
\* differ in forecast hour, in pressure, in parameter, two parameters that
\* tie, and a record that is not valid
ReorderShapes ==
    {[Parameters |-> <<"HGT">>, TypeName |-> t, LayerName |-> l] :
        t \in GoodTypeNames, l \in GoodLayerNames}
    \cup {[Parameters |-> p, TypeName |-> <<"anl">>,
           LayerName |-> <<"1000", pressureSuffix>>] : p \in {<<"UGRD">>, <<"TMP">>}}
    \cup {[Parameters |-> <<"HGT">>, TypeName |-> <<"anl">>, LayerName |-> <<"surface">>]}

\* most bytes in a record
MaxExtent == 2

OpenInputFailed == "error opening input"
OpenOutputFailed == "error opening output"
ReorderFailed == "error re-ordering"

\* part_016 lines 147-153: ReorderGrib2 with the inventory of the source
\* loaded.  The destination does not exist or is truncated by os.Create
ReInit ==
    /\ \E n \in 0..MaxItems : \E shapes \in [1..n -> ReorderShapes] :
          \E exts \in [1..n -> 1..MaxExtent] :
              /\ twInv = [i \in 1..n |-> ItemAt(shapes[i], i, exts)]
              /\ srcSize = SumTo(exts, n)
    /\ noFilter = FALSE
    /\ noSort = FALSE
    /\ tpc = "parse"
    /\ tws = <<>>
    /\ twOut = <<>>
    /\ twCmd = "reorder"
    /\ reFail \in {"none", "open", "create", "copy"}
    /\ ReStart

\* the item of the inventory that twOut lists at position k
OutItem(k) == twInv[twOut[k]]

\* a copy that ignores the seek and reads on from the start of the source
ReadFromStart(offset, extent, size) ==
    [k \in 1..(IF extent < size THEN extent ELSE size) |-> k - 1]

\* part_016 lines 189-193: in.Seek(offset, 0), then io.CopyN(out, in,
\* extent): the bytes at offset, offset+1, ... of the source, extent of
\* them or as many as the file holds from there on; none for an extent <= 0
ReadSpan(offset, extent, size) ==
    LET avail == IF size - offset > 0 THEN size - offset ELSE 0
        n == IF extent < avail THEN extent ELSE avail
    IN [k \in 1..(IF n > 0 THEN n ELSE 0) |-> offset + k - 1]

\* part_016 lines 173-177: os.Open(sourceFn) fails
ReOpenFail ==
    /\ tpc = "output"
    /\ twCmd = "reorder"
    /\ reFail = "open"
    /\ reErr' = OpenInputFailed
    /\ tpc' = "done"
    /\ UNCHANGED <<twInv, noFilter, noSort, tws, twOut, twCmd, srcSize, reFail, copyIdx,
                   destFile>>
    /\ UNCHANGED <<fvars, svars, besideTaw>>

\* part_016 lines 173-184: os.Create(destFn) fails
ReCreateFail ==
    /\ tpc = "output"
    /\ twCmd = "reorder"
    /\ reFail = "create"
    /\ reErr' = OpenOutputFailed
    /\ tpc' = "done"
    /\ UNCHANGED <<twInv, noFilter, noSort, tws, twOut, twCmd, srcSize, reFail, copyIdx,
                   destFile>>
    /\ UNCHANGED <<fvars, svars, besideTaw>>

\* part_016 lines 173-185: both files are open, the destination is empty
ReOpen ==
    /\ tpc = "output"
    /\ twCmd = "reorder"
    /\ reFail \notin {"open", "create"}
    /\ destFile' = <<>>
    /\ copyIdx' = 1
    /\ tpc' = "copy"
    /\ UNCHANGED <<twInv, noFilter, noSort, tws, twOut, twCmd, srcSize, reFail, reErr>>
    /\ UNCHANGED <<fvars, svars, besideTaw>>

\* part_016 lines 188-197: one pass of the copy loop; io.CopyN returns
\* io.EOF when the source holds fewer than Extent bytes from Offset on
ReCopy ==
    /\ tpc = "copy"
    /\ copyIdx <= Len(twOut)
    /\ reFail # "copy"
    /\ LET span == ReadSpan(OutItem(copyIdx).Offset, OutItem(copyIdx).Extent, srcSize)
       IN /\ destFile' = destFile \o span
          /\ IF Len(span) < OutItem(copyIdx).Extent
                THEN /\ reErr' = ReorderFailed
                     /\ tpc' = "done"
                     /\ UNCHANGED copyIdx
                ELSE /\ copyIdx' = copyIdx + 1
                     /\ UNCHANGED <<reErr, tpc>>
    /\ UNCHANGED <<twInv, noFilter, noSort, tws, twOut, twCmd, srcSize, reFail>>
    /\ UNCHANGED <<fvars, svars, besideTaw>>

\* part_016 lines 193-196: io.CopyN fails on a read or a write, after any
\* part of the span
ReCopyFail ==
    /\ tpc = "copy"
    /\ copyIdx <= Len(twOut)
    /\ reFail = "copy"
    /\ \E n \in 0..(OutItem(copyIdx).Extent - 1) :
          destFile' = destFile \o ReadSpan(OutItem(copyIdx).Offset, n, srcSize)
    /\ reErr' = ReorderFailed
    /\ tpc' = "done"
    /\ UNCHANGED <<twInv, noFilter, noSort, tws, twOut, twCmd, srcSize, reFail, copyIdx>>
    /\ UNCHANGED <<fvars, svars, besideTaw>>

\* part_016 lines 188, 199-200: the loop is over; return nil
ReDone ==
    /\ tpc = "copy"
    /\ copyIdx > Len(twOut)
    /\ reErr' = "nil"
    /\ tpc' = "done"
    /\ UNCHANGED <<twInv, noFilter, noSort, tws, twOut, twCmd, srcSize, reFail, copyIdx,
                   destFile>>
    /\ UNCHANGED <<fvars, svars, besideTaw>>

ReNext ==
    \/ TawParse
    \/ TawFilter
    \/ TawSort
    \/ TawDeparse
    \/ ReOpenFail
    \/ ReCreateFail
    \/ ReOpen
    \/ ReCopy
    \/ ReCopyFail
    \/ ReDone

TawNext ==
    \/ TawParse
    \/ TawFilter
    \/ TawFilterSkip
    \/ TawSort
    \/ TawSortSkip
    \/ TawDeparse

(***************************************************************************)
(* The inv command with -nosort and -nofilter: the text of "wgrib2 -s" is  *)
(* parsed by ParseInventory and printed again with Wgrib2Strings           *)
(* (inventory.go lines 35-57, part_010 lines 61-98).                       *)
(*                                                                         *)
(* A line of text is kept as its seven fields; the record id is the        *)
(* sequence of its pieces: "3" is <<"3">>, "3.2" is <<"3", ".", "2">>.     *)
(***************************************************************************)
\* fmt.Sprint / %d / %v of a small integer
Sprint(n) ==
    CASE n = 0 -> "0"
      [] n = 1 -> "1"
      [] n = 2 -> "2"
      [] n = 3 -> "3"
      [] n = 6 -> "6"

\* the date field of the lines
DateText == "d=2014010100"

\* inventory.go lines 166-183: parseDateField on a field of the form
\* d=YYYYMMDDHH
ParseDateField(text) == IF text = "d=2014010100" THEN <<2014, 1, 1, 0>> ELSE <<>>

\* inventory.go line 48: "d=" and item.When.Format("2006010215")
FormatWhen(when) == IF when = <<2014, 1, 1, 0>> THEN "d=2014010100" ELSE "d=?"

\* strings.Split(id, "."): the parts between the dots
SplitDots(id) == SelectSeq(id, LAMBDA piece : piece # ".")

\* what a line of "wgrib2 -s" can be: a record of its own ("N"), the first
\* field of a record of several ("N.1"), a further field of the record
\* ("N.M"); on a level; with a last field that is empty or a count
TextShapes ==
    {[kind |-> k, layer |-> l, fac |-> f] :
        k \in {"single", "first", "next"},
        l \in {<<"1000", " mb">>, <<"850", " mb">>},
        f \in {"", "0", "6"}}

\* the kinds follow each other as wgrib2 writes them: "N.1" is followed by
\* "N.2", and "N.M" with M > 1 follows "N.1" or another "N.M"
WellFormedKinds(shapes) ==
    \A i \in 1..Len(shapes) :
        /\ shapes[i].kind = "first" => (i < Len(shapes) /\ shapes[i + 1].kind = "next")
        /\ shapes[i].kind = "next" => (i > 1 /\ shapes[i - 1].kind \in {"first", "next"})

\* the number of the record that line i belongs to: records are numbered
\* from 1 in file order
RecordOfLine(shapes, i) == Cardinality({j \in 1..i : shapes[j].kind # "next"})

\* the line that starts the record of line i
BaseOfLine(shapes, i) ==
    CHOOSE j \in 1..i : shapes[j].kind # "next" /\ \A k \in (j + 1)..i : shapes[k].kind = "next"

\* the text of line i: the fields of a record share its offset, and the
\* records lie one byte apart
TextAt(shapes, i) ==
    [id |-> IF shapes[i].kind = "single"
               THEN <<Sprint(RecordOfLine(shapes, i))>>
               ELSE <<Sprint(RecordOfLine(shapes, i)), ".",
                      Sprint(i - BaseOfLine(shapes, i) + 1)>>,
     offset |-> Sprint(RecordOfLine(shapes, i) - 1),
     date |-> DateText,
     param |-> ParamNames[i],
     layer |-> shapes[i].layer,
     type |-> <<"anl">>,
     fac |-> shapes[i].fac]

\* inventory.go lines 76-123: what the loop body reads off the fields of a
\* line of text
LineOfText(text) ==
    [nf |-> 7,
     nids |-> Len(SplitDots(text.id)),
     rec |-> Atoi(<<SplitDots(text.id)[1]>>).val,
     sub |-> IF Len(SplitDots(text.id)) > 1 THEN Atoi(<<SplitDots(text.id)[2]>>).val ELSE 0,
     off |-> Atoi(<<text.offset>>).val,
     numOK |-> /\ Atoi(<<SplitDots(text.id)[1]>>).ok
               /\ (Len(SplitDots(text.id)) > 1 => Atoi(<<SplitDots(text.id)[2]>>).ok)
               /\ Atoi(<<text.offset>>).ok
               /\ (text.fac # "" => Atoi(<<text.fac>>).ok),
     dateOK |-> ParseDateField(text.date) # <<>>,
     when |-> ParseDateField(text.date),
     param |-> text.param,
     layer |-> text.layer,
     type |-> text.type,
     fac |-> IF text.fac # "" THEN Atoi(<<text.fac>>).val ELSE 0,
     text |-> text]

\* inventory.go lines 43-46: fac
FacText(n) == IF n # 0 THEN Sprint(n) ELSE ""

\* inventory.go lines 35-57: Wgrib2Strings
Wgrib2Strings(item) ==
    [pIdx \in 1..Len(item.Parameters) |->
        [id |-> IF Len(item.Parameters) > 1
                   THEN <<Sprint(item.RecordNumber), ".", Sprint(pIdx)>>
                   ELSE <<Sprint(item.RecordNumber)>>,
         offset |-> Sprint(item.Offset),
         date |-> FormatWhen(item.When),
         param |-> item.Parameters[pIdx],
         layer |-> item.LayerName,
         type |-> item.TypeName,
         fac |-> FacText(item.FieldAverageCount)]]

\* part_010 lines 94-98: the lines of every item, in order
RECURSIVE PrintInventory(_)
PrintInventory(inv) ==
    IF inv = <<>> THEN <<>> ELSE Wgrib2Strings(Head(inv)) \o PrintInventory(Tail(inv))

\* part_010 lines 61-69, inventory.go lines 229-255: runInv -nosort
\* -nofilter on a file whose "wgrib2 -s" text is read to its end
RtInit ==
    /\ \E n \in 0..MaxLines : \E shapes \in [1..n -> TextShapes] :
          /\ WellFormedKinds(shapes)
          /\ invLines = [i \in 1..n |-> LineOfText(TextAt(shapes, i))]
          /\ totalLength = RecordOfLine(shapes, n)
    /\ invReadErr = "none"
    /\ ipc = "scan"
    /\ lineNo = 1
    /\ inventory = <<>>
    /\ lastItem = <<>>
    /\ invResult = <<>>
    /\ invErr = "nil"
    /\ printed = <<>>

\* part_010 lines 72-98 with noFilter and noSort: tws holds the items of inv
\* in order, neither loop touches it, FromTawhiris gives the items back, and
\* the lines of each are printed
InvPrint ==
    /\ ipc = "done"
    /\ invErr = "nil"
    /\ printed' = PrintInventory(invResult)
    /\ ipc' = "printed"
    /\ UNCHANGED <<invLines, invReadErr, totalLength, lineNo, inventory, lastItem,
                   invResult, invErr>>
    /\ UNCHANGED <<fvars, svars, besideInv>>

RtNext == ParseLine \/ ParseFinish \/ InvPrint

(***************************************************************************)
(* TemporaryFileSource (part_009 lines 44-98), one call at a time.         *)
(*                                                                         *)
(* The files made by Create are named 1, 2, ...; 0 is a file of the        *)
(* caller's that this source did not create.                               *)
(***************************************************************************)
NotManaged == "temporary file was not managed by me"

NoSuchFile == "remove: no such file or directory"

TempFileFailed == "TempFile failed"

\* append(s[:i], s[i+1:]...) with i counted from 1
CutAt(s, i) == [j \in 1..(Len(s) - 1) |-> IF j < i THEN s[j] ELSE s[j + 1]]

\* part_009 lines 66-84: Remove from index fIdx on.  After the file is cut
\* out and deleted the loop goes on with the next index of the shorter list
RECURSIVE RemoveFrom(_, _, _, _)
RemoveFrom(files, disk, f, fIdx) ==
    IF fIdx > Len(files) THEN [files |-> files, disk |-> disk, err |-> NotManaged]
    ELSE IF files[fIdx] # f THEN RemoveFrom(files, disk, f, fIdx + 1)
    ELSE IF f \notin disk
        THEN [files |-> CutAt(files, fIdx), disk |-> disk, err |-> NoSuchFile]
        ELSE RemoveFrom(CutAt(files, fIdx), disk \ {f}, f, fIdx + 1)

\* part_009 lines 88-98: RemoveAll returns the error of the last os.Remove
\* that failed
RemoveAllErr(files, disk) ==
    IF \E i \in 1..Len(files) : files[i] \notin disk THEN NoSuchFile ELSE "nil"

\* &TemporaryFileSource{...}: nothing tracked, nothing created
SrcInit ==
    /\ srcFiles = <<>>
    /\ srcDisk = {0}
    /\ srcCreated = 0
    /\ srcCall = [op |-> "new"]

\* part_009 lines 54-62: Create
SrcCreate ==
    /\ srcCall.op # "none"
    /\ srcCreated < MaxCreated
    /\ srcCreated' = srcCreated + 1
    /\ srcFiles' = Append(srcFiles, srcCreated + 1)
    /\ srcDisk' = srcDisk \cup {srcCreated + 1}
    /\ srcCall' = [op |-> "Create", f |-> srcCreated + 1, files |-> srcFiles,
                   disk |-> srcDisk, err |-> "nil"]
    /\ UNCHANGED <<fvars, svars, besideSrc>>

\* part_009 lines 55-58: ioutil.TempFile fails
SrcCreateFail ==
    /\ srcCall.op # "none"
    /\ srcCall' = [op |-> "Create", f |-> 0, files |-> srcFiles, disk |-> srcDisk,
                   err |-> TempFileFailed]
    /\ UNCHANGED <<srcFiles, srcDisk, srcCreated>>
    /\ UNCHANGED <<fvars, svars, besideSrc>>

\* part_009 lines 66-84: Remove(f), for a file made by Create at some time
\* or for the caller's own file
SrcRemove ==
    /\ srcCall.op # "none"
    /\ \E f \in 0..srcCreated :
          LET r == RemoveFrom(srcFiles, srcDisk, f, 1) IN
          /\ srcFiles' = r.files
          /\ srcDisk' = r.disk
          /\ srcCall' = [op |-> "Remove", f |-> f, files |-> srcFiles,
                         disk |-> srcDisk, err |-> r.err]
    /\ UNCHANGED srcCreated
    /\ UNCHANGED <<fvars, svars, besideSrc>>

\* part_009 lines 88-98: RemoveAll
SrcRemoveAll ==
    /\ srcCall.op # "none"
    /\ srcDisk' = srcDisk \ Range(srcFiles)
    /\ srcCall' = [op |-> "RemoveAll", f |-> 0, files |-> srcFiles, disk |-> srcDisk,
                   err |-> RemoveAllErr(srcFiles, srcDisk)]
    /\ UNCHANGED <<srcFiles, srcCreated>>
    /\ UNCHANGED <<fvars, svars, besideSrc>>

SrcNext == SrcCreate \/ SrcCreateFail \/ SrcRemove \/ SrcRemoveAll

(***************************************************************************)
(* ReorderGrib2 run again on the file it has written (part_016 lines       *)
(* 147-201, inventory.go lines 61-163).                                    *)
(***************************************************************************)
\* the inventory wgrib2 gives for the file ReorderGrib2 wrote: the records
\* of twOut in their order, numbered from 1, each starting where the one
\* before it ends
InventoryOfOutput ==
    LET exts == [k \in 1..Len(twOut) |-> OutItem(k).Extent]
    IN [k \in 1..Len(twOut) |->
           [OutItem(k) EXCEPT !.RecordNumber = k, !.Offset = SumTo(exts, k - 1)]]

\* part_016 lines 147-152: ReorderGrib2(destFn, ...) after ReorderGrib2
\* returned nil: the inventory of the written file is loaded
ReAgain ==
    /\ twCmd = "reorder"
    /\ tpc = "done"
    /\ reErr = "nil"
    /\ rePass = 1
    /\ rePass' = 2
    /\ twInv' = InventoryOfOutput
    /\ srcSize' = Len(destFile)
    /\ tpc' = "parse"
    /\ tws' = <<>>
    /\ twOut' = <<>>
    /\ copyIdx' = 1
    /\ destFile' = <<>>
    /\ UNCHANGED <<noFilter, noSort, twCmd, reFail, reErr>>
    /\ UNCHANGED <<fvars, svars>>
    /\ UNCHANGED <<ivars, dvars, wvars, evars, ovars>>

(***************************************************************************)
(* Run.FetchDatasets and matchDatasetNode (part_004).                      *)
(*                                                                         *)
(* The index page is the list of its nodes in the order walkNodeTree       *)
(* visits them (a node, then its children, first to last).  An href is     *)
(* kept as the pieces DatasetPattern tells apart:                          *)
(* "gfs.t06z.pgrb2.0p25.f003/" is <<"gfs.t", "06", "z.pgrb2.0p25.f",       *)
(* "003", "/">>.  A node has at most one attribute.                        *)
(***************************************************************************)
\* most nodes in an index page
MaxNodes == 3

GetFailed == "fetch failed"

\* strings.TrimRight(s, "/")
TrimRightSlash(s) ==
    LET keep == {i \in 1..Len(s) : s[i] # "/"}
    IN IF keep = {} THEN <<>>
       ELSE SubSeq(s, 1, CHOOSE i \in keep : \A j \in keep : j <= i)

\* part_003 line 100: DatasetPattern
\* ^gfs\.t(?P<runHour>\d{2})z\.(?P<typeId>pgrb2b?)\.0p25\.f(?P<fcstHour>\d+)$
\* matches identifier
MatchesDatasetPattern(identifier) ==
    /\ Len(identifier) = 4
    /\ identifier[1] = "gfs.t"
    /\ identifier[2] \in {"00", "06"}
    /\ identifier[3] = "z.pgrb2.0p25.f"
    /\ identifier[4] \in {"003"}

\* the href values of the anchors of an index page
Hrefs ==
    {<<"gfs.t", "00", "z.pgrb2.0p25.f", "003">>,
     <<"gfs.t", "06", "z.pgrb2.0p25.f", "003">>,
     <<"gfs.t", "06", "z.pgrb2.0p25.f", "003", "/">>,
     <<"gfs.t", "xx", "z.pgrb2.0p25.f", "003">>,
     <<"index.html">>}

\* the nodes of an index page: text, elements that are no anchors, anchors
\* without attribute, with an attribute that is no href, with an href
NodeShapes ==
    {[Type |-> "TextNode", Data |-> "", Attr |-> <<>>],
     [Type |-> "ElementNode", Data |-> "p", Attr |-> <<>>],
     [Type |-> "ElementNode", Data |-> "a", Attr |-> <<>>],
     [Type |-> "ElementNode", Data |-> "a",
      Attr |-> <<[Key |-> "name", Val |-> <<"top">>]>>]}
    \cup {[Type |-> "ElementNode", Data |-> "a",
           Attr |-> <<[Key |-> "href", Val |-> h]>>] : h \in Hrefs}

\* a dataset that accepts every run hour
SendsAnyHour(node, hour) ==
    /\ node.Type = "ElementNode" /\ node.Data = "a"
    /\ Len(node.Attr) = 1
    /\ node.Attr[1].Key = "href"
    /\ MatchesDatasetPattern(TrimRightSlash(node.Attr[1].Val))

\* part_004 lines 65-116: matchDatasetNode sends a Dataset for node.  The
\* submatch runHour is parsed with strconv.Atoi (line 99) and compared with
\* ctx.Run.When.Hour() (line 112)
Sends(node, hour) ==
    /\ node.Type = "ElementNode" /\ node.Data = "a"
    /\ Len(node.Attr) = 1
    /\ node.Attr[1].Key = "href"
    /\ MatchesDatasetPattern(TrimRightSlash(node.Attr[1].Val))
    /\ Atoi(<<TrimRightSlash(node.Attr[1].Val)[2]>>).val = hour

\* part_004 lines 118-122: the Dataset made from the i-th node
DatasetOf(node, i) ==
    [Identifier |-> TrimRightSlash(node.Attr[1].Val),
     Node |-> i,
     ForecastHour |-> Atoi(<<TrimRightSlash(node.Attr[1].Val)[4]>>).val,
     TypeIdentifier |-> "pgrb2"]

FdInit ==
    /\ \E n \in 0..MaxNodes : docNodes \in [1..n -> NodeShapes]
    /\ runWhenHour \in {0, 6}
    /\ docFetch \in {"ok", "err"}
    /\ dpc = "get"
    /\ walkPos = 1
    /\ dsChanClosed = FALSE
    /\ datasets = <<>>
    /\ dsResult = <<>>
    /\ dsErr = "nil"

\* part_004 lines 32-35: getAndParse fails
FdGetFail ==
    /\ dpc = "get"
    /\ docFetch = "err"
    /\ dsResult' = <<>>
    /\ dsErr' = GetFailed
    /\ dpc' = "done"
    /\ UNCHANGED <<docNodes, runWhenHour, docFetch, walkPos, dsChanClosed, datasets>>
    /\ UNCHANGED <<fvars, svars, besideFd>>

\* part_004 lines 32-50: the page is parsed, the channel made, the walking
\* goroutine launched
FdGetOK ==
    /\ dpc = "get"
    /\ docFetch = "ok"
    /\ dpc' = "range"
    /\ UNCHANGED <<docNodes, runWhenHour, docFetch, walkPos, dsChanClosed, datasets,
                   dsResult, dsErr>>
    /\ UNCHANGED <<fvars, svars, besideFd>>

\* part_004 lines 65-116: the goroutine visits a node that yields no Dataset
\* (no anchor, no href, no match, another run hour)
WalkSkip ==
    /\ dpc = "range"
    /\ walkPos <= Len(docNodes)
    /\ ~Sends(docNodes[walkPos], runWhenHour)
    /\ walkPos' = walkPos + 1
    /\ UNCHANGED <<docNodes, runWhenHour, docFetch, dpc, dsChanClosed, datasets,
                   dsResult, dsErr>>
    /\ UNCHANGED <<fvars, svars, besideFd>>

\* part_004 lines 118-122 and 51-53: the goroutine sends a Dataset on the
\* unbuffered channel and the range loop of FetchDatasets receives and
\* appends it
WalkSend ==
    /\ dpc = "range"
    /\ walkPos <= Len(docNodes)
    /\ Sends(docNodes[walkPos], runWhenHour)
    /\ datasets' = Append(datasets, DatasetOf(docNodes[walkPos], walkPos))
    /\ walkPos' = walkPos + 1
    /\ UNCHANGED <<docNodes, runWhenHour, docFetch, dpc, dsChanClosed, dsResult, dsErr>>
    /\ UNCHANGED <<fvars, svars, besideFd>>

\* part_004 line 43: the walk is over, the deferred close(c) runs
WalkClose ==
    /\ dpc = "range"
    /\ walkPos > Len(docNodes)
    /\ ~dsChanClosed
    /\ dsChanClosed' = TRUE
    /\ UNCHANGED <<docNodes, runWhenHour, docFetch, dpc, walkPos, datasets, dsResult,
                   dsErr>>
    /\ UNCHANGED <<fvars, svars, besideFd>>

\* part_004 lines 51-55: the range loop ends on the closed channel
FdReturn ==
    /\ dpc = "range"
    /\ dsChanClosed
    /\ dsResult' = datasets
    /\ dsErr' = "nil"
    /\ dpc' = "done"
    /\ UNCHANGED <<docNodes, runWhenHour, docFetch, walkPos, dsChanClosed, datasets>>
    /\ UNCHANGED <<fvars, svars, besideFd>>

FdNext ==
    \/ FdGetFail
    \/ FdGetOK
    \/ WalkSkip
    \/ WalkSend
    \/ WalkClose
    \/ FdReturn

(***************************************************************************)
(* Dataset.FetchAndWriteRecords (dataset.go lines 264-333): a goroutine    *)
(* that performs the request and copies the body to output, a goroutine    *)
(* that sleeps for FetchTimeout, and the select of the caller on their     *)
(* three channels.  Each channel has room for the one value ever sent on   *)
(* it, so no send blocks.                                                  *)
(***************************************************************************)
\* most bytes in a response body
MaxBody == 2

DoFailed == "client.Do failed"
NotPartialContent == "expected HTTP partial content"
CopyFailed == "io.Copy failed"
TimedOut == "Request timed out"

FwInit ==
    /\ reqOutcome \in {"doErr", "badStatus", "copyErr", "ok"}
    /\ bodyLen \in 0..MaxBody
    /\ gpc = "do"
    /\ outBytes = 0
    /\ timerPc = "sleep"
    /\ chTimeout = <<>>
    /\ chFetchErr = <<>>
    /\ chDone = <<>>
    /\ wpc = "select"
    /\ wN = 0
    /\ wErr = "nil"
    /\ wLog = <<>>

\* lines 291-295: client.Do fails
GDoFail ==
    /\ gpc = "do"
    /\ reqOutcome = "doErr"
    /\ chFetchErr' = Append(chFetchErr, DoFailed)
    /\ wLog' = Append(wLog, "fetchErr")
    /\ gpc' = "end"
    /\ UNCHANGED <<reqOutcome, bodyLen, outBytes, timerPc, chTimeout, chDone, wpc, wN, wErr>>
    /\ UNCHANGED <<fvars, svars, besideFw>>

\* lines 291-296: client.Do returns a response
GDoOK ==
    /\ gpc = "do"
    /\ reqOutcome # "doErr"
    /\ gpc' = "status"
    /\ UNCHANGED <<reqOutcome, bodyLen, outBytes, timerPc, chTimeout, chFetchErr, chDone,
                   wpc, wN, wErr, wLog>>
    /\ UNCHANGED <<fvars, svars, besideFw>>

\* lines 299-303: the status is not 206
GBadStatus ==
    /\ gpc = "status"
    /\ reqOutcome = "badStatus"
    /\ chFetchErr' = Append(chFetchErr, NotPartialContent)
    /\ wLog' = Append(wLog, "fetchErr")
    /\ gpc' = "end"
    /\ UNCHANGED <<reqOutcome, bodyLen, outBytes, timerPc, chTimeout, chDone, wpc, wN, wErr>>
    /\ UNCHANGED <<fvars, svars, besideFw>>

\* lines 299-306: the status is 206, io.Copy starts
GStatusOK ==
    /\ gpc = "status"
    /\ reqOutcome # "badStatus"
    /\ gpc' = "copy"
    /\ UNCHANGED <<reqOutcome, bodyLen, outBytes, timerPc, chTimeout, chFetchErr, chDone,
                   wpc, wN, wErr, wLog>>
    /\ UNCHANGED <<fvars, svars, besideFw>>

\* line 306: io.Copy moves the next byte of the body to output
GCopyByte ==
    /\ gpc = "copy"
    /\ outBytes < bodyLen
    /\ outBytes' = outBytes + 1
    /\ UNCHANGED <<reqOutcome, bodyLen, gpc, timerPc, chTimeout, chFetchErr, chDone,
                   wpc, wN, wErr, wLog>>
    /\ UNCHANGED <<fvars, svars, besideFw>>

\* lines 306-310: io.Copy fails, at any point of the body
GCopyFail ==
    /\ gpc = "copy"
    /\ reqOutcome = "copyErr"
    /\ chFetchErr' = Append(chFetchErr, CopyFailed)
    /\ wLog' = Append(wLog, "fetchErr")
    /\ gpc' = "end"
    /\ UNCHANGED <<reqOutcome, bodyLen, outBytes, timerPc, chTimeout, chDone, wpc, wN, wErr>>
    /\ UNCHANGED <<fvars, svars, besideFw>>

\* lines 306-313: io.Copy reaches the end of the body; done <- nWritten
GCopyDone ==
    /\ gpc = "copy"
    /\ reqOutcome = "ok"
    /\ outBytes = bodyLen
    /\ chDone' = Append(chDone, outBytes)
    /\ wLog' = Append(wLog, "done")
    /\ gpc' = "end"
    /\ UNCHANGED <<reqOutcome, bodyLen, outBytes, timerPc, chTimeout, chFetchErr, wpc, wN,
                   wErr>>
    /\ UNCHANGED <<fvars, svars, besideFw>>

\* lines 317-320: the sleep is over; timeout <- true
TimerFire ==
    /\ timerPc = "sleep"
    /\ chTimeout' = Append(chTimeout, TRUE)
    /\ wLog' = Append(wLog, "timeout")
    /\ timerPc' = "end"
    /\ UNCHANGED <<reqOutcome, bodyLen, gpc, outBytes, chFetchErr, chDone, wpc, wN, wErr>>
    /\ UNCHANGED <<fvars, svars, besideFw>>

\* a timeout case that also stops the goroutine
SelectTimeoutCancels ==
    /\ wpc = "select"
    /\ chTimeout # <<>>
    /\ chTimeout' = Tail(chTimeout)
    /\ wN' = 0
    /\ wErr' = TimedOut
    /\ wpc' = "returned"
    /\ wLog' = Append(wLog, "return")
    /\ gpc' = "end"
    /\ UNCHANGED <<reqOutcome, bodyLen, outBytes, timerPc, chFetchErr, chDone>>
    /\ UNCHANGED <<fvars, svars, besideFw>>

\* lines 322-325: the select receives from fetchErr
SelectFetchErr ==
    /\ wpc = "select"
    /\ chFetchErr # <<>>
    /\ chFetchErr' = Tail(chFetchErr)
    /\ wN' = 0
    /\ wErr' = Head(chFetchErr)
    /\ wpc' = "returned"
    /\ wLog' = Append(wLog, "return")
    /\ UNCHANGED <<reqOutcome, bodyLen, gpc, outBytes, timerPc, chTimeout, chDone>>
    /\ UNCHANGED <<fvars, svars, besideFw>>

\* lines 322, 326-328: the select receives from done
SelectDone ==
    /\ wpc = "select"
    /\ chDone # <<>>
    /\ chDone' = Tail(chDone)
    /\ wN' = Head(chDone)
    /\ wErr' = "nil"
    /\ wpc' = "returned"
    /\ wLog' = Append(wLog, "return")
    /\ UNCHANGED <<reqOutcome, bodyLen, gpc, outBytes, timerPc, chTimeout, chFetchErr>>
    /\ UNCHANGED <<fvars, svars, besideFw>>

\* lines 322, 329-331: the select receives from timeout.  Nothing tells the
\* request goroutine, which goes on
SelectTimeout ==
    /\ wpc = "select"
    /\ chTimeout # <<>>
    /\ chTimeout' = Tail(chTimeout)
    /\ wN' = 0
    /\ wErr' = TimedOut
    /\ wpc' = "returned"
    /\ wLog' = Append(wLog, "return")
    /\ UNCHANGED <<reqOutcome, bodyLen, gpc, outBytes, timerPc, chFetchErr, chDone>>
    /\ UNCHANGED <<fvars, svars, besideFw>>

\* the steps of the request-and-copy goroutine
GNext ==
    \/ GDoFail
    \/ GDoOK
    \/ GBadStatus
    \/ GStatusOK
    \/ GCopyByte
    \/ GCopyFail
    \/ GCopyDone

FwNext ==
    \/ GNext
    \/ TimerFire
    \/ SelectFetchErr
    \/ SelectDone
    \/ SelectTimeout

(***************************************************************************)
(* The extract command: runExtract and extract (part_013 lines 96-150),    *)
(* exit and the interrupt handler (main.go lines 39-47, 81-92).            *)
(* ReorderGrib2 is taken in the three steps that matter to the temporary   *)
(* file: loading the inventory of the source, os.Create of the temporary   *)
(* file, the copy.                                                         *)
(***************************************************************************)
ExInit ==
    /\ exFails \in {"none", "tempfile", "inventory", "copy", "expand"}
    /\ epc = "tempfile"
    /\ exErr = "nil"
    /\ tmpExists = FALSE
    /\ atexitFuncs = 0
    /\ esigPc = "none"
    /\ procState = "running"

\* part_013 lines 125-128: ioutil.TempFile fails
ExTempFileFail ==
    /\ procState = "running"
    /\ epc = "tempfile"
    /\ exFails = "tempfile"
    /\ exErr' = "err"
    /\ epc' = "returned"
    /\ UNCHANGED <<exFails, tmpExists, atexitFuncs, esigPc, procState>>
    /\ UNCHANGED <<fvars, svars, besideEx>>

\* part_013 lines 125-130: ioutil.TempFile creates the file
ExTempFile ==
    /\ procState = "running"
    /\ epc = "tempfile"
    /\ exFails # "tempfile"
    /\ tmpExists' = TRUE
    /\ epc' = "register"
    /\ UNCHANGED <<exFails, exErr, atexitFuncs, esigPc, procState>>
    /\ UNCHANGED <<fvars, svars, besideEx>>

\* part_013 lines 131-137: the removal is deferred and registered with
\* atexit
ExRegister ==
    /\ procState = "running"
    /\ epc = "register"
    /\ atexitFuncs' = atexitFuncs + 1
    /\ epc' = "inventory"
    /\ UNCHANGED <<exFails, exErr, tmpExists, esigPc, procState>>
    /\ UNCHANGED <<fvars, svars, besideEx>>

\* part_013 line 140, part_016 lines 149-152: ReorderGrib2 cannot load the
\* inventory
ExInventoryFail ==
    /\ procState = "running"
    /\ epc = "inventory"
    /\ exFails = "inventory"
    /\ exErr' = "err"
    /\ epc' = "unwind"
    /\ UNCHANGED <<exFails, tmpExists, atexitFuncs, esigPc, procState>>
    /\ UNCHANGED <<fvars, svars, besideEx>>

\* part_016 lines 149-177: the inventory is loaded, converted and sorted, the
\* source opened
ExInventory ==
    /\ procState = "running"
    /\ epc = "inventory"
    /\ exFails # "inventory"
    /\ epc' = "create"
    /\ UNCHANGED <<exFails, exErr, tmpExists, atexitFuncs, esigPc, procState>>
    /\ UNCHANGED <<fvars, svars, besideEx>>

\* part_016 line 180: os.Create(destFn) on the temporary file's name: the
\* file is truncated, or created when no file of that name exists
ExCreate ==
    /\ procState = "running"
    /\ epc = "create"
    /\ tmpExists' = TRUE
    /\ epc' = "copy"
    /\ UNCHANGED <<exFails, exErr, atexitFuncs, esigPc, procState>>
    /\ UNCHANGED <<fvars, svars, besideEx>>

\* part_016 lines 188-197, part_013 lines 140-142: the copy fails
ExCopyFail ==
    /\ procState = "running"
    /\ epc = "copy"
    /\ exFails = "copy"
    /\ exErr' = "err"
    /\ epc' = "unwind"
    /\ UNCHANGED <<exFails, tmpExists, atexitFuncs, esigPc, procState>>
    /\ UNCHANGED <<fvars, svars, besideEx>>

\* part_016 lines 188-200: the copy succeeds, ReorderGrib2 returns nil
ExCopy ==
    /\ procState = "running"
    /\ epc = "copy"
    /\ exFails # "copy"
    /\ epc' = "expand"
    /\ UNCHANGED <<exFails, exErr, tmpExists, atexitFuncs, esigPc, procState>>
    /\ UNCHANGED <<fvars, svars, besideEx>>

\* part_013 lines 144-147: Wgrib2Extract fails
ExExpandFail ==
    /\ procState = "running"
    /\ epc = "expand"
    /\ exFails = "expand"
    /\ exErr' = "err"
    /\ epc' = "unwind"
    /\ UNCHANGED <<exFails, tmpExists, atexitFuncs, esigPc, procState>>
    /\ UNCHANGED <<fvars, svars, besideEx>>

\* part_013 lines 144-149: Wgrib2Extract succeeds
ExExpand ==
    /\ procState = "running"
    /\ epc = "expand"
    /\ exFails # "expand"
    /\ exErr' = "nil"
    /\ epc' = "unwind"
    /\ UNCHANGED <<exFails, tmpExists, atexitFuncs, esigPc, procState>>
    /\ UNCHANGED <<fvars, svars, besideEx>>

\* part_013 line 131: extract returns; the deferred os.Remove(tmpFn) runs
ExDeferredRemove ==
    /\ procState = "running"
    /\ epc = "unwind"
    /\ tmpExists' = FALSE
    /\ epc' = "returned"
    /\ UNCHANGED <<exFails, exErr, atexitFuncs, esigPc, procState>>
    /\ UNCHANGED <<fvars, svars, besideEx>>

\* part_013 lines 118-120: log.Fatal(err) ends the process
ExFatal ==
    /\ procState = "running"
    /\ epc = "returned"
    /\ exErr # "nil"
    /\ procState' = "fatal"
    /\ epc' = "exited"
    /\ UNCHANGED <<exFails, exErr, tmpExists, atexitFuncs, esigPc>>
    /\ UNCHANGED <<fvars, svars, besideEx>>

\* main.go lines 59-60, 87-92: runExtract returns and main calls exit(): the
\* registered functions run (os.Remove(tmpFn)), then os.Exit
ExExit ==
    /\ procState = "running"
    /\ epc = "returned"
    /\ exErr = "nil"
    /\ tmpExists' = IF atexitFuncs > 0 THEN FALSE ELSE tmpExists
    /\ procState' = "exited"
    /\ epc' = "exited"
    /\ UNCHANGED <<exFails, exErr, atexitFuncs, esigPc>>
    /\ UNCHANGED <<fvars, svars, besideEx>>

\* main.go lines 41-44: an os.Interrupt arrives and the handling goroutine
\* receives it
ExInterrupt ==
    /\ procState = "running"
    /\ esigPc = "none"
    /\ esigPc' = "atexit"
    /\ UNCHANGED <<exFails, epc, exErr, tmpExists, atexitFuncs, procState>>
    /\ UNCHANGED <<fvars, svars, besideEx>>

\* main.go lines 46, 87-90: exit() runs the functions registered so far
ExHandlerAtexit ==
    /\ procState = "running"
    /\ esigPc = "atexit"
    /\ tmpExists' = IF atexitFuncs > 0 THEN FALSE ELSE tmpExists
    /\ esigPc' = "exit"
    /\ UNCHANGED <<exFails, epc, exErr, atexitFuncs, procState>>
    /\ UNCHANGED <<fvars, svars, besideEx>>

\* main.go line 91: os.Exit(exitStatus) ends the process, the main goroutine
\* wherever it is
ExHandlerExit ==
    /\ procState = "running"
    /\ esigPc = "exit"
    /\ procState' = "interrupted"
    /\ esigPc' = "done"
    /\ UNCHANGED <<exFails, epc, exErr, tmpExists, atexitFuncs>>
    /\ UNCHANGED <<fvars, svars, besideEx>>

ExNext ==
    \/ ExTempFileFail
    \/ ExTempFile
    \/ ExRegister
    \/ ExInventoryFail
    \/ ExInventory
    \/ ExCreate
    \/ ExCopyFail
    \/ ExCopy
    \/ ExExpandFail
    \/ ExExpand
    \/ ExDeferredRemove
    \/ ExFatal
    \/ ExExit
    \/ ExInterrupt
    \/ ExHandlerAtexit
    \/ ExHandlerExit

(***************************************************************************)
(* Specifications.                                                         *)
(***************************************************************************)
\* the inventory parser is not running
InvIdle ==
    /\ invLines = <<>>
    /\ invReadErr = "none"
    /\ totalLength = 0
    /\ ipc = "idle"
    /\ lineNo = 1
    /\ inventory = <<>>
    /\ lastItem = <<>>
    /\ invResult = <<>>
    /\ invErr = "nil"
    /\ printed = <<>>

\* the Tawhiri ordering is not running
TawIdle ==
    /\ twInv = <<>>
    /\ noFilter = FALSE
    /\ noSort = FALSE
    /\ tpc = "idle"
    /\ tws = <<>>
    /\ twOut = <<>>
    /\ twCmd = "none"
    /\ srcSize = 0
    /\ reFail = "none"
    /\ ReStart

\* FetchDatasets is not running
FdIdle ==
    /\ docNodes = <<>>
    /\ runWhenHour = 0
    /\ docFetch = "ok"
    /\ dpc = "idle"
    /\ walkPos = 1
    /\ dsChanClosed = FALSE
    /\ datasets = <<>>
    /\ dsResult = <<>>
    /\ dsErr = "nil"

\* FetchAndWriteRecords is not running
FwIdle ==
    /\ reqOutcome = "ok"
    /\ bodyLen = 0
    /\ gpc = "idle"
    /\ outBytes = 0
    /\ timerPc = "idle"
    /\ chTimeout = <<>>
    /\ chFetchErr = <<>>
    /\ chDone = <<>>
    /\ wpc = "idle"
    /\ wN = 0
    /\ wErr = "nil"
    /\ wLog = <<>>

\* the extract command is not running
ExIdle ==
    /\ exFails = "none"
    /\ epc = "idle"
    /\ exErr = "nil"
    /\ tmpExists = FALSE
    /\ atexitFuncs = 0
    /\ esigPc = "none"
    /\ procState = "idle"

\* no call has been made on a TemporaryFileSource of its own
SrcIdle ==
    /\ srcFiles = <<>>
    /\ srcDisk = {0}
    /\ srcCreated = 0
    /\ srcCall = [op |-> "none"]

\* ReorderGrib2 has not been run on its own output
AgainIdle == rePass = 1

\* none of the library functions is running
LibIdle == InvIdle /\ TawIdle /\ FdIdle /\ FwIdle /\ ExIdle /\ SrcIdle /\ AgainIdle

\* none but the inventory parser
BesideInvIdle == TawIdle /\ FdIdle /\ FwIdle /\ ExIdle /\ SrcIdle /\ AgainIdle

\* none but the Tawhiri ordering
BesideTawIdle == InvIdle /\ FdIdle /\ FwIdle /\ ExIdle /\ SrcIdle /\ AgainIdle

\* none but FetchDatasets
BesideFdIdle == InvIdle /\ TawIdle /\ FwIdle /\ ExIdle /\ SrcIdle /\ AgainIdle

\* none but FetchAndWriteRecords
BesideFwIdle == InvIdle /\ TawIdle /\ FdIdle /\ ExIdle /\ SrcIdle /\ AgainIdle

\* none but the extract command
BesideExIdle == InvIdle /\ TawIdle /\ FdIdle /\ FwIdle /\ SrcIdle /\ AgainIdle

\* none but the TemporaryFileSource used on its own
BesideSrcIdle == InvIdle /\ TawIdle /\ FdIdle /\ FwIdle /\ ExIdle /\ AgainIdle

\* none but the repeated ReorderGrib2
BesideAgainIdle == InvIdle /\ TawIdle /\ FdIdle /\ FwIdle /\ ExIdle /\ SrcIdle

\* the retry executor is not running
FetchIdle ==
    /\ fMaximumRetries = 0
    /\ fpc = "idle"
    /\ nTries = 0
    /\ try = 0
    /\ fLog = <<>>
    /\ fResp = 0
    /\ fErr = "nil"

\* the sync command is not running
SyncIdle ==
    /\ syncMaxRuns = 0
    /\ MinDatasets = 0
    /\ MaximumRetries = 0
    /\ MaxForecastHour = 0
    /\ serverRuns = {}
    /\ serverDatasets = {}
    /\ serverFetch = {}
    /\ outExists = {}
    /\ SyncStart

Init == SyncInit /\ FetchIdle /\ LibIdle

TaskNext ==
    \E d \in DatasetIds :
        \/ TaskAcquire(d)
        \/ TaskCreate(d)
        \/ TaskExhausted(d)
        \/ TaskFetchOK(d)
        \/ TaskFetchFail(d)
        \/ TaskRelease(d)
        \/ TaskDone(d)
        \/ DrainRecv(d)

SyncNext ==
    \/ RunSyncBegin
    \/ RunSyncLoopEnd
    \/ RunSyncNilRun
    \/ RunSyncSkip
    \/ RunSyncCall
    \/ SyncRunDiscover
    \/ RunSyncEnd
    \/ SpawnSkip
    \/ SpawnTask
    \/ SpawnCloser
    \/ CloserClose
    \/ TaskNext
    \/ DrainCopy
    \/ DrainRemove
    \/ DrainEnd

Next == SyncNext

Spec == Init /\ [][Next]_vars

\* the pipeline against runs that list one more dataset than the limiter has
\* permits: one run with every dataset wanted on a server that fails every
\* dataset fetch, or several runs of which the forecast-hour filter keeps the
\* first dataset
InitLimiter ==
    /\ MinDatasets = 0
    /\ MaximumRetries = 1
    /\ serverDatasets = {LimiterDatasets}
    /\ \/ /\ syncMaxRuns = 1
          /\ MaxForecastHour = 0
          /\ serverRuns = {1}
          /\ serverFetch = {"err"}
          /\ outExists = {}
       \/ /\ syncMaxRuns \in 0..MaxMaxRuns
          /\ MaxForecastHour = 3
          /\ serverRuns = 0..MaxListed
          /\ serverFetch = {"ok", "err"}
          /\ outExists \in SUBSET Dates
    /\ SyncStart
    /\ FetchIdle
    /\ LibIdle

SpecLimiter == InitLimiter /\ [][Next]_vars

\* one run on the server, no output file yet, every listed dataset wanted,
\* each fetch attempt free to succeed or fail
InitOneRun ==
    /\ syncMaxRuns = 1
    /\ MinDatasets = 0
    /\ MaximumRetries \in 0..MaxTaskRetries
    /\ MaxForecastHour = 0
    /\ serverRuns = {1}
    /\ serverDatasets = {MaxDatasets}
    /\ serverFetch = {"ok", "err"}
    /\ outExists = {}
    /\ SyncStart
    /\ FetchIdle
    /\ LibIdle

\* the pipeline under a scheduler that keeps running some goroutine that can
\* take a step, against a server whose every answer arrives (a fetch attempt
\* ends, well or badly): the configurations of SpecLimiter, and one run whose
\* tasks succeed and fail in any mix
InitLive == InitLimiter \/ InitOneRun

\* the pipeline on a disk on which ioutil.TempFile can fail
TaskNextTmpFail == \E d \in DatasetIds : TaskCreateFail(d)

NextTmpFail == Next \/ TaskNextTmpFail

SpecTmpFail == Init /\ [][NextTmpFail]_vars

SpecLive == InitLive /\ [][Next]_vars /\ WF_vars(Next)

\* one run synced with the TemporaryFileSource's calls open to interleaving
TaskNextRace ==
    \E d \in DatasetIds :
        \/ TaskAcquire(d)
        \/ TaskCreateLoad(d)
        \/ TaskCreateStore(d)
        \/ TaskExhausted(d)
        \/ TaskFetchOK(d)
        \/ TaskFetchFailLoad(d)
        \/ TaskRemoveStore(d)
        \/ TaskRelease(d)
        \/ TaskDone(d)
        \/ DrainRecv(d)

NextRace ==
    \/ RunSyncBegin
    \/ RunSyncLoopEnd
    \/ RunSyncCall
    \/ SyncRunDiscover
    \/ RunSyncEnd
    \/ SpawnTask
    \/ SpawnCloser
    \/ CloserClose
    \/ TaskNextRace
    \/ DrainCopy
    \/ DrainRemoveLoad
    \/ DrainRemoveStore
    \/ DrainEnd

SpecRace == InitOneRun /\ [][NextRace]_vars

\* one run synced by a process that the user may interrupt
NextInterrupt ==
    \/ RunSyncBegin
    \/ RunSyncLoopEnd
    \/ RunSyncCall
    \/ SyncRunDiscover
    \/ RunSyncEnd
    \/ SpawnTask
    \/ SpawnCloser
    \/ CloserClose
    \/ TaskNext
    \/ DrainCopy
    \/ DrainRemove
    \/ DrainEnd
    \/ Interrupt
    \/ HandlerRemoveAll
    \/ HandlerExit

SpecInterrupt == InitOneRun /\ [][NextInterrupt]_vars

\* the retry executor on its own
InitFetch == FetchInit /\ SyncIdle /\ LibIdle

NextFetch == FetchNext

SpecFetch == InitFetch /\ [][NextFetch]_vars

\* the inventory parser on its own
InitInv == InvInit /\ SyncIdle /\ FetchIdle /\ BesideInvIdle

NextInv == InvNext

SpecInv == InitInv /\ [][NextInv]_vars

\* the inv command from the parsed inventory on, under every setting of its
\* two flags (ReorderGrib2 is the setting with both off)
InitTaw == TawInit /\ SyncIdle /\ FetchIdle /\ BesideTawIdle

NextTaw == TawNext

SpecTaw == InitTaw /\ [][NextTaw]_vars

\* the inv command with both flags set, from the text of wgrib2 to the
\* printed lines
InitRt == RtInit /\ SyncIdle /\ FetchIdle /\ BesideInvIdle

NextRt == RtNext

SpecRt == InitRt /\ [][NextRt]_vars

\* a TemporaryFileSource and its caller
InitSrc == SrcInit /\ SyncIdle /\ FetchIdle /\ BesideSrcIdle

NextSrc == SrcNext

SpecSrc == InitSrc /\ [][NextSrc]_vars

\* ReorderGrib2 from the parsed inventory on
InitReorder == ReInit /\ SyncIdle /\ FetchIdle /\ BesideTawIdle

NextReorder == ReNext

SpecReorder == InitReorder /\ [][NextReorder]_vars

\* ReorderGrib2, and ReorderGrib2 once more on what it wrote
NextAgain == ReNext \/ ReAgain

SpecAgain == InitReorder /\ [][NextAgain]_vars

\* the extract command, which the user may interrupt
InitExtract == ExInit /\ SyncIdle /\ FetchIdle /\ BesideExIdle

NextExtract == ExNext

SpecExtract == InitExtract /\ [][NextExtract]_vars

\* FetchDatasets on its own
InitFd == FdInit /\ SyncIdle /\ FetchIdle /\ BesideFdIdle

NextFd == FdNext

SpecFd == InitFd /\ [][NextFd]_vars

\* FetchAndWriteRecords on its own
InitFw == FwInit /\ SyncIdle /\ FetchIdle /\ BesideFwIdle

NextFw == FwNext

SpecFw == InitFw /\ [][NextFw]_vars

(***************************************************************************)
(* Views of the pipeline's state used by the properties.                   *)
(***************************************************************************)
\* tasks that were submitted (their goroutine was launched)
Submitted == {d \in DatasetIds : task[d].pc # "idle"}

\* tasks between acquiring and releasing the limiter
InFlight == {d \in DatasetIds : task[d].pc \in {"loop", "fetch", "publish", "release"}}

\* tasks whose goroutine is past its work: it decided to publish nothing, or
\* its file has been received
TaskOver(d) == task[d].pc \in {"release", "wgdone", "finished"}

\* the task ended without a successful fetch
TaskFailed(d) == TaskOver(d) /\ ~task[d].fetched

\* the download phase of the run at idx is over and syncRun has returned
DownloadOver == pc \in {"afterloop", "exited"} /\ Submitted # {}

\* how often x occurs in the sequence s
Count(x, s) == Cardinality({i \in 1..Len(s) : s[i] = x})

\* runSync went past FetchRuns and has ended, one way or another
RunSyncOver == pc = "exited" /\ ~(exitState = "fatal" /\ fatalMsg = DiscoveryFailed)

\* the main goroutine is inside syncRun
InSyncRun == pc \in {"syncRun", "spawn", "drain", "copy", "remove", "cut"}

\* syncRun has returned nil for the run at idx
SyncedOK == pc \in {"afterloop", "exited"} /\ succeeded

\* what the files fs hold, one after the other, each as its task wrote it
RECURSIVE Concat(_)
Concat(fs) ==
    IF fs = <<>> THEN <<>> ELSE DatasetBytes(Head(fs)[1]) \o Concat(Tail(fs))

\* fs without its last element
Front(fs) == SubSeq(fs, 1, Len(fs) - 1)

(***************************************************************************)
(* C4: runSync attempts the candidate runs in descending date order and    *)
(* stops at the first run whose syncRun succeeds; if every examined        *)
(* candidate fails, the operation ends with the fatal error "no runs were  *)
(* downloaded".                                                            *)
(***************************************************************************)
C4_FirstSuccessElseFatal ==
    /\ \* the runs are examined in list order, newest first
       \A i \in 1..Len(examined) :
           /\ i <= Len(runs) /\ examined[i] = runs[i]
           /\ \A j \in 1..Len(examined) : i < j => examined[i] > examined[j]
    /\ \* nothing is examined after the first success
       \A i \in 1..Len(examined) :
           runResult[examined[i]] = "ok" => i = Len(examined)
    /\ \* without a success the operation ends with NoRunsDownloaded
       (RunSyncOver /\ \A r \in Range(examined) : runResult[r] # "ok") =>
           (exitState = "fatal" /\ fatalMsg = NoRunsDownloaded)

(***************************************************************************)
(* C5: a candidate run whose output file already exists is skipped:        *)
(* syncRun is not invoked for it, no task or temporary file is created for *)
(* it, its output file stays as it was, and the loop goes on to the next   *)
(* candidate.                                                              *)
(***************************************************************************)
C5_ExistingOutputSkipped ==
    [][ /\ \* the step taken at a candidate whose output exists
           (pc = "loop" /\ idx <= syncMaxRuns /\ idx <= Len(runs)
                /\ runs[idx] \in outExists) =>
               /\ pc' = "loop" /\ idx' = idx + 1
               /\ runResult'[runs[idx]] = "skipped"
               /\ UNCHANGED <<diskvars, pipevars>>
        /\ \* a skipped run is never touched again
           \A r \in Dates :
               runResult[r] = "skipped" =>
                   /\ runResult'[r] = "skipped"
                   /\ r \in outExists' /\ outData'[r] = outData[r]
                   /\ (pc' \in {"syncRun", "spawn", "drain", "copy", "remove"}
                          => runs'[idx'] # r)
      ]_vars

C5_Witness ==
    \E r, q \in Dates :
        /\ runResult[r] = "skipped" /\ outData[r] = OldBytes
        /\ r > q /\ runResult[q] = "ok" /\ outData[q] # <<>>

(***************************************************************************)
(* C6: if every submitted dataset download of a run exhausts its retries,  *)
(* syncRun reports failure for the run and runSync falls back to the next  *)
(* older candidate instead of counting the run as downloaded.              *)
(***************************************************************************)
C6_TotalDownloadFailureFallsBack ==
    (/\ DownloadOver
     /\ MaximumRetries >= 1
     /\ \A d \in Submitted : TaskFailed(d) /\ task[d].tries = MaximumRetries) =>
        (runResult[runs[idx]] # "ok" /\ ~succeeded)

C8_TooFewExactlyBelowMinimum ==
    [][ (pc = "syncRun" /\ runResult'[runs[idx]] # DiscoveryFailed) =>
            /\ (runResult'[runs[idx]] = TooFewDatasets) <=> (nDatasets' < MinDatasets)
            /\ (pc' = "spawn") <=> (nDatasets' >= MinDatasets)
            /\ (MinDatasets = 0 => pc' = "spawn")
      ]_vars

C8_Witness ==
    /\ pc = "loop"
    /\ idx = 3
    /\ MinDatasets = 2
    /\ nDatasets = MinDatasets - 1
    /\ runResult[runs[1]] = TooFewDatasets
    /\ runResult[runs[2]] = TooFewDatasets

(***************************************************************************)
(* C9: at every moment at most maximumSimultaneousDownloads (5) dataset    *)
(* tasks are between acquiring and releasing the download limiter, however *)
(* many datasets were submitted; a task beyond the limit waits until a     *)
(* permit is released.                                                     *)
(***************************************************************************)
C9_AtMostFiveInFlight ==
    /\ Cardinality(InFlight) <= 5
    /\ fetchSem = Cardinality(InFlight)
    /\ \A d \in DatasetIds :
          (task[d].pc = "acquire" /\ Cardinality(InFlight) = 5) =>
              ~ENABLED TaskAcquire(d)

C9_Witness ==
    /\ Cardinality({d \in DatasetIds : task[d].pc = "fetch"}) = 5
    /\ \E d \in DatasetIds : task[d].pc = "acquire"

(***************************************************************************)
(* C10: the completion queue is closed, and so syncRun's drain loop ends,  *)
(* only after every submitted dataset task has finished: syncRun never     *)
(* leaves its download phase while a submitted task is still running or    *)
(* still holds a finished file it has not published.                       *)
(***************************************************************************)
C10_ClosedOnlyAfterAllTasksFinished ==
    /\ chanClosed =>
          /\ spawnIdx > nDatasets
          /\ \A d \in Submitted : task[d].pc = "finished"
    /\ (pc \in {"afterloop", "exited"}) =>
          /\ \A d \in Submitted : task[d].pc = "finished"
          /\ Submitted # {} => chanClosed

C10_Witness ==
    /\ pc = "afterloop"
    /\ chanClosed
    /\ \E d, e \in Submitted :
          /\ task[d].pc = "finished" /\ ~task[d].fetched
          /\ task[e].pc = "finished" /\ task[e].fetched

(***************************************************************************)
(* C11: if every fetch attempt terminates, syncRun eventually returns, for *)
(* any number of datasets and any mix of successes and failures, also when *)
(* every task fails and publishes nothing and when there are more tasks    *)
(* than limiter permits: limiter, completion queue and wait-group never    *)
(* deadlock.                                                               *)
(***************************************************************************)
C11_SyncRunTerminates == InSyncRun ~> ~InSyncRun

C11_Witness ==
    /\ pc = "afterloop"
    /\ nDatasets = LimiterDatasets
    /\ Cardinality(Submitted) > maximumSimultaneousDownloads
    /\ \A d \in Submitted : task[d].pc = "finished" /\ ~task[d].fetched
    /\ received = <<>>

(***************************************************************************)
(* C12: the output file of syncRun is exactly the concatenation of the     *)
(* completed temporary files in the order the orchestrator received them:  *)
(* every published file is copied whole and exactly once, bytes of two     *)
(* datasets never interleave, and each file is deleted after it has been   *)
(* copied.                                                                 *)
(***************************************************************************)
C12_OutputIsConcatenationInReceiveOrder ==
    /\ \* no file is received twice
       \A i, j \in 1..Len(received) : i # j => received[i] # received[j]
    /\ \* the file in hand is the last received and is still whole on disk
       (pc = "copy") =>
          /\ received # <<>> /\ recvFile = received[Len(received)]
          /\ recvFile \in DOMAIN tmpDisk
          /\ tmpDisk[recvFile] = DatasetBytes(recvFile[1])
          /\ outData[runs[idx]] = Concat(Front(received))
    /\ \* after each copy the output is the concatenation of what was received
       (pc \in {"drain", "remove", "cut"} \/ SyncedOK) =>
          outData[runs[idx]] = Concat(received)
    /\ \* a copied file is gone once Remove has returned
       (pc = "drain" \/ SyncedOK) =>
          \A i \in 1..Len(received) : received[i] \notin DOMAIN tmpDisk

(***************************************************************************)
(* C13: when syncRun returns, with success or with an error, no temporary  *)
(* file created by that invocation remains on disk.                        *)
(***************************************************************************)
C13_NoTempFileAfterSyncRun ==
    (pc \in {"loop", "afterloop", "exited"}) => DOMAIN tmpDisk = {}

(***************************************************************************)
(* C14: on an interrupt during syncRun the forced cleanup deletes all      *)
(* temporary files of the invocation: once the handler has run RemoveAll   *)
(* and the process has exited, no temporary file created by the            *)
(* in-progress syncRun remains on disk.                                    *)
(***************************************************************************)
C14_InterruptLeavesNoTempFile ==
    (exitState = "interrupted") => DOMAIN tmpDisk = {}

(***************************************************************************)
(* C15: when maxForecastHour > 0, no dataset with forecastHour >           *)
(* maxForecastHour is ever submitted for download or contributes bytes to  *)
(* the output, while a dataset with forecastHour equal to maxForecastHour  *)
(* is submitted; when maxForecastHour = 0 every discovered dataset is      *)
(* submitted.                                                              *)
(***************************************************************************)
C15_ForecastHourFilter ==
    LET Within(d) == MaxForecastHour = 0 \/ ForecastHour(d) <= MaxForecastHour IN
    /\ \A d \in Submitted : Within(d)
    /\ \A d \in DatasetIds : \A r \in Dates :
          ~Within(d) => Count(d, outData[r]) = 0
    /\ \* once the launching loop is through, every dataset within the limit
       \* has been submitted
       (pc \in {"drain", "copy", "remove"} \/ SyncedOK) =>
          Submitted = {d \in 1..nDatasets : Within(d)}

C15_Witness ==
    /\ SyncedOK
    /\ MaxForecastHour = 3
    /\ nDatasets = 2
    /\ Submitted = {1}
    /\ ForecastHour(1) = MaxForecastHour
    /\ outData[runs[idx]] = DatasetBytes(1)

(***************************************************************************)
(* Views of the parser's input and result used by the properties.          *)
(***************************************************************************)
\* a base line: record id N, or N.M with M = 1
IsBase(l) == l.nids = 1 \/ l.sub = 1

\* the base lines among the first n lines of the index
BaseLines(n) == {i \in 1..n : IsBase(invLines[i])}

\* the j-th base line of the index
NthBase(j) ==
    CHOOSE i \in BaseLines(Len(invLines)) :
        Cardinality({k \in BaseLines(Len(invLines)) : k <= i}) = j

\* ParseInventory has returned an inventory and no error
InvReturned == ipc = "done" /\ invErr = "nil"

\* the sum of the extents of the items of inv
RECURSIVE SumExtents(_)
SumExtents(inv) ==
    IF inv = <<>> THEN 0 ELSE Head(inv).Extent + SumExtents(Tail(inv))

(***************************************************************************)
(* C16: in every inventory returned by ParseInventory, the extent of each  *)
(* item except the last equals the offset of the next item minus its own   *)
(* offset, and the extent of the last item equals totalLength minus its    *)
(* offset; every base line yields exactly one item and items appear in     *)
(* input order although each is emitted one line late.                     *)
(***************************************************************************)
C16_ExtentsFromNextOffset ==
    /\ InvReturned =>
          /\ Len(invResult) = Cardinality(BaseLines(Len(invLines)))
          /\ \A j \in 1..Len(invResult) :
                /\ invResult[j].RecordNumber = NthBase(j)
                /\ invResult[j].Offset = invLines[NthBase(j)].off
                /\ invResult[j].Extent =
                      IF j < Len(invResult)
                         THEN invResult[j + 1].Offset - invResult[j].Offset
                         ELSE totalLength - invResult[j].Offset
    /\ \* while scanning, the item of the latest base line is held back
       (ipc = "scan") =>
          LET seen == BaseLines(lineNo - 1) IN
          /\ Len(inventory) = (IF seen = {} THEN 0 ELSE Cardinality(seen) - 1)
          /\ (seen = {}) <=> (lastItem = <<>>)
          /\ seen # {} =>
                lastItem[1].RecordNumber = CHOOSE i \in seen : \A k \in seen : k <= i

C16_Witness ==
    /\ InvReturned
    /\ Len(invLines) = 3
    /\ Len(invResult) = 2
    /\ ~IsBase(invLines[2])
    /\ invResult[1].Extent = 2
    /\ invResult[2].Extent = 1

(***************************************************************************)
(* C17: for every non-empty inventory returned by ParseInventory with      *)
(* total length L, the sum of the extents of all items equals L minus the  *)
(* offset of the first item.                                               *)
(***************************************************************************)
C17_ExtentsSumToLength ==
    (InvReturned /\ invResult # <<>>) =>
        SumExtents(invResult) = totalLength - invResult[1].Offset

C17_Witness ==
    /\ InvReturned
    /\ Len(invResult) = 3
    /\ invResult[1].Offset = 1
    /\ invResult[3].Offset = 2
    /\ totalLength = 3
    /\ SumExtents(invResult) = 2

(***************************************************************************)
(* C18: every item returned by ParseInventory has extent >= 0, for every   *)
(* input text and totalLength that ParseInventory accepts without error.   *)
(***************************************************************************)
C18_ExtentsNonNegative ==
    InvReturned => \A j \in 1..Len(invResult) : invResult[j].Extent >= 0

\* the parameter names of lines from..to, in line order
RECURSIVE ParamsOfLines(_, _)
ParamsOfLines(from, to) ==
    IF from > to THEN <<>>
    ELSE <<invLines[from].param>> \o ParamsOfLines(from + 1, to)

\* the last line before the base line that follows line i, or n if none does
GroupEnd(i, n) ==
    LET later == {k \in BaseLines(n) : k > i} IN
    IF later = {} THEN n ELSE (CHOOSE k \in later : \A m \in later : k <= m) - 1

(***************************************************************************)
(* C19: a line whose record id is N.M with M > 1 creates no new item: it   *)
(* appends its parameter name to the end of the in-progress item's         *)
(* parameter list, so an item built from a base line followed by k         *)
(* sub-record lines has exactly k+1 parameters in the order encountered    *)
(* and the number of returned items equals the number of base lines.       *)
(***************************************************************************)
C19_SubrecordsExtendItem ==
    /\ InvReturned =>
          /\ Len(invResult) = Cardinality(BaseLines(Len(invLines)))
          /\ \A j \in 1..Len(invResult) :
                LET b == NthBase(j)
                    e == GroupEnd(b, Len(invLines))
                IN /\ invResult[j].Parameters = ParamsOfLines(b, e)
                   /\ Len(invResult[j].Parameters) = (e - b) + 1
    /\ \* while scanning: the items so far are those of the base lines read, and
       \* the item in progress holds its base line's name and those of the
       \* sub-record lines read since
       (ipc = "scan" /\ lastItem # <<>>) =>
          /\ Len(inventory) + 1 = Cardinality(BaseLines(lineNo - 1))
          /\ lastItem[1].Parameters =
                ParamsOfLines(lastItem[1].RecordNumber, lineNo - 1)

C19_Witness ==
    /\ InvReturned
    /\ Len(invLines) = 3
    /\ invLines[2].nids = 2 /\ invLines[2].sub = 2
    /\ invLines[3].nids = 2 /\ invLines[3].sub = 2
    /\ Len(invResult) = 1
    /\ invResult[1].Parameters = <<"HGT", "UGRD", "VGRD">>

\* line i is one of the lines the claim names: fewer than 7 fields, a date
\* field of another form, or a sub-record (M > 1) with no item in progress
Rejected(i) ==
    \/ invLines[i].nf < 7
    \/ ~invLines[i].dateOK
    \/ (invLines[i].nids = 2 /\ invLines[i].sub > 1 /\ BaseLines(i - 1) = {})

(***************************************************************************)
(* C20: ParseInventory returns either an inventory or an error, never a    *)
(* partial result: a sub-record line (M > 1) when no item is in progress,  *)
(* a line with fewer than 7 colon-separated fields, or a date field not    *)
(* matching d=YYYYMMDDHH makes it return an error and no items, even when  *)
(* earlier lines were well-formed.                                         *)
(***************************************************************************)
C20_InventoryOrErrorNeverPartial ==
    (ipc = "done") =>
        /\ \* an error comes with no items
           invErr # "nil" => invResult = <<>>
        /\ \* each of the named lines makes the call fail
           (\E i \in 1..Len(invLines) : Rejected(i)) =>
               (invErr # "nil" /\ invResult = <<>>)
        /\ \* items are returned only for an index that was read to its end
           invResult # <<>> => invReadErr = "none"
(***************************************************************************)
(* Views of the Tawhiri ordering used by the properties.                   *)
(***************************************************************************)
\* ToTawhiris has run
TawParsed == tpc \in {"filter", "sort", "deparse", "output"}

\* the sort step is behind
TawSorted == tpc \in {"deparse", "output"}

\* the InventoryItem that tw.Item points to
ItemOf(tw) == twInv[tw.Item]

\* the parameter index by name: HGT 0, UGRD 1, VGRD 2, 3 for anything else
\* and for no parameter at all
NamedParamIdx(params) ==
    IF Len(params) = 0 THEN 3
    ELSE IF params[1] = "HGT" THEN 0
    ELSE IF params[1] = "UGRD" THEN 1
    ELSE IF params[1] = "VGRD" THEN 2
    ELSE 3

(***************************************************************************)
(* C21: ToTawhiri sets ParamIdx to 0, 1, 2 when the item's first parameter *)
(* is HGT, UGRD, VGRD, and to 3 in every other case: any other first       *)
(* parameter name, or no parameters at all.                                *)
(***************************************************************************)
C21_ParamIdxByFirstParameter ==
    TawParsed =>
        \A i \in 1..Len(tws) : tws[i].ParamIdx = NamedParamIdx(ItemOf(tws[i]).Parameters)

\* a type name that is "anl" or a decimal integer followed by " hour fcst"
IsForecastType(t) ==
    \/ t = <<"anl">>
    \/ (Len(t) = 2 /\ t[1] \in Numerals /\ t[2] = " hour fcst")

\* a layer name that is a decimal integer followed by " mb"
IsPressureLayer(l) == Len(l) = 2 /\ l[1] \in Numerals /\ l[2] = " mb"

(***************************************************************************)
(* C22: ToTawhiri marks an item valid if and only if both parses succeed:  *)
(* its typeName is "anl" (forecast hour 0) or "<integer> hour fcst", and   *)
(* its layerName is "<integer> mb".  "anl" with "1000 mb" gives forecast   *)
(* hour 0, pressure 1000, valid; a typeName "surface" gives an invalid     *)
(* item with forecast hour 0 whatever the layerName.                       *)
(***************************************************************************)
C22_ValidIffBothParse ==
    TawParsed =>
        \A i \in 1..Len(tws) :
            LET tw == tws[i]
                item == ItemOf(tws[i])
            IN /\ tw.IsValid <=>
                    (IsForecastType(item.TypeName) /\ IsPressureLayer(item.LayerName))
               /\ item.TypeName = <<"anl">> => tw.ForecastHour = 0
               /\ item.TypeName = <<"6", " hour fcst">> => tw.ForecastHour = 6
               /\ (item.TypeName = <<"anl">> /\ item.LayerName = <<"1000", " mb">>)
                     => (tw.ForecastHour = 0 /\ tw.Pressure = 1000 /\ tw.IsValid)
               /\ (tw.IsValid /\ item.LayerName = <<"850", " mb">>) => tw.Pressure = 850
               /\ item.TypeName = <<"surface">> => (~tw.IsValid /\ tw.ForecastHour = 0)

\* an inventory was converted that holds "anl" at "1000 mb" (valid), a type
\* "surface" at a layer "1000 mb" that parses (invalid), and a type that
\* parses at a layer "surface" (invalid)
C22_Witness ==
    /\ tpc = "filter"
    /\ Len(tws) = 3
    /\ twInv[1].TypeName = <<"anl">> /\ twInv[1].LayerName = <<"1000", " mb">>
    /\ tws[1].IsValid /\ tws[1].Pressure = 1000
    /\ twInv[2].TypeName = <<"surface">> /\ twInv[2].LayerName = <<"1000", " mb">>
    /\ ~tws[2].IsValid
    /\ twInv[3].TypeName = <<"6", " hour fcst">> /\ twInv[3].LayerName = <<"surface">>
    /\ ~tws[3].IsValid /\ tws[3].ForecastHour = 6

\* neither element is Less than the other
Incomparable(a, b) == ~Less(a, b) /\ ~Less(b, a)

\* the key the valid items are compared on
SortKey(tw) == <<tw.ForecastHour, tw.Pressure, tw.ParamIdx>>

(***************************************************************************)
(* C23: ByTawhiri.Less is a strict weak ordering: it is irreflexive and    *)
(* transitive, incomparability is transitive, and Less is false both ways  *)
(* exactly when both items are invalid or both are valid with equal        *)
(* (ForecastHour, Pressure, ParamIdx).                                     *)
(***************************************************************************)
C23_LessIsStrictWeakOrder ==
    \A a, b, c \in Range(tws) :
        /\ ~Less(a, a)
        /\ (Less(a, b) /\ Less(b, c)) => Less(a, c)
        /\ (Incomparable(a, b) /\ Incomparable(b, c)) => Incomparable(a, c)
        /\ Incomparable(a, b) <=>
              \/ (~a.IsValid /\ ~b.IsValid)
              \/ (a.IsValid /\ b.IsValid /\ SortKey(a) = SortKey(b))

\* three converted items are at hand: two valid ones with the same key, a
\* valid one that is Less than both, and none of them invalid
C23_Witness ==
    /\ tpc = "filter"
    /\ Len(tws) = 3
    /\ \A i \in 1..3 : tws[i].IsValid
    /\ SortKey(tws[1]) = SortKey(tws[2])
    /\ Less(tws[3], tws[1])
    /\ Less(tws[3], tws[2])
    /\ ~Less(tws[1], tws[2]) /\ ~Less(tws[2], tws[1])

(***************************************************************************)
(* C24: after sorting with ByTawhiri no invalid item precedes a valid      *)
(* item, and the valid items are in ascending ForecastHour, then           *)
(* descending Pressure, then ascending ParamIdx: of two items of forecast  *)
(* hour 6 and pressures 850 and 1000, the one at 1000 comes first.         *)
(***************************************************************************)
C24_SortedIntoTawhiriOrder ==
    (TawSorted /\ ~noSort) =>
        \A i, j \in 1..Len(tws) :
            i < j =>
                /\ tws[j].IsValid => tws[i].IsValid
                /\ (tws[i].IsValid /\ tws[j].IsValid) =>
                      /\ tws[i].ForecastHour <= tws[j].ForecastHour
                      /\ tws[i].ForecastHour = tws[j].ForecastHour =>
                            tws[i].Pressure >= tws[j].Pressure
                      /\ (tws[i].ForecastHour = tws[j].ForecastHour
                            /\ tws[i].Pressure = tws[j].Pressure) =>
                            tws[i].ParamIdx <= tws[j].ParamIdx

\* an unfiltered inventory listing an invalid item, then forecast hour 6 at
\* 850 mb, then forecast hour 6 at 1000 mb has been sorted: the item at
\* 1000 mb is first, the invalid one last
C24_Witness ==
    /\ tpc = "deparse"
    /\ ~noSort
    /\ noFilter
    /\ Len(twInv) = 3
    /\ twInv[1].TypeName = <<"surface">>
    /\ twInv[2].TypeName = <<"6", " hour fcst">> /\ twInv[2].LayerName = <<"850", " mb">>
    /\ twInv[3].TypeName = <<"6", " hour fcst">> /\ twInv[3].LayerName = <<"1000", " mb">>
    /\ FromTawhiris(tws) = <<3, 2, 1>>

(***************************************************************************)
(* C25: sorting into Tawhiri order is stable: items the comparator treats  *)
(* as equal (two invalid items when filtering is off, or valid items with  *)
(* equal ForecastHour, Pressure and ParamIdx) keep their input relative    *)
(* order in the sorted output.  (Items are numbered in input order.)       *)
(***************************************************************************)
C25_SortIsStable ==
    (TawSorted /\ ~noSort) =>
        \A i, j \in 1..Len(tws) :
            (i < j /\ Incomparable(tws[i], tws[j])) => tws[i].Item < tws[j].Item

(***************************************************************************)
(* Views of FetchDatasets used by the properties.                          *)
(***************************************************************************)
\* the run hour written in the href of the i-th node
HrefRunHour(i) ==
    LET h == docNodes[i].Attr[1].Val
    IN IF h[2] = "00" THEN 0 ELSE IF h[2] = "06" THEN 6 ELSE -1

\* the i-th node is an anchor whose href, without trailing slashes, matches
\* the dataset pattern
IsDatasetAnchor(i) ==
    /\ docNodes[i].Data = "a"
    /\ Len(docNodes[i].Attr) = 1
    /\ docNodes[i].Attr[1].Key = "href"
    /\ docNodes[i].Attr[1].Val \in
          {<<"gfs.t", "00", "z.pgrb2.0p25.f", "003">>,
           <<"gfs.t", "06", "z.pgrb2.0p25.f", "003">>,
           <<"gfs.t", "06", "z.pgrb2.0p25.f", "003", "/">>}

\* the dataset anchors of the run's own hour
OwnHourAnchors ==
    {i \in 1..Len(docNodes) : IsDatasetAnchor(i) /\ HrefRunHour(i) = runWhenHour}

(***************************************************************************)
(* C26: every Dataset returned by FetchDatasets has a parsed runHour equal *)
(* to the hour of its run; an anchor that matches the dataset pattern but  *)
(* carries another runHour is dropped without making FetchDatasets return  *)
(* an error, and the other matching anchors are still returned, in         *)
(* document order.                                                         *)
(***************************************************************************)
C26_RunHourMismatchDropped ==
    (dpc = "done" /\ docFetch = "ok") =>
        /\ dsErr = "nil"
        /\ {dsResult[k].Node : k \in 1..Len(dsResult)} = OwnHourAnchors
        /\ \A k, l \in 1..Len(dsResult) : k < l => dsResult[k].Node < dsResult[l].Node
        /\ \A k \in 1..Len(dsResult) : HrefRunHour(dsResult[k].Node) = runWhenHour

\* a page with a dataset anchor of another hour between two of the run's
\* hour was read: the two are returned, in order, and no error
C26_Witness ==
    /\ dpc = "done"
    /\ dsErr = "nil"
    /\ Len(docNodes) = 3
    /\ IsDatasetAnchor(1) /\ IsDatasetAnchor(2) /\ IsDatasetAnchor(3)
    /\ runWhenHour = 6
    /\ HrefRunHour(1) = 6 /\ HrefRunHour(2) = 0 /\ HrefRunHour(3) = 6
    /\ Len(dsResult) = 2
    /\ dsResult[1].Node = 1 /\ dsResult[2].Node = 3

(***************************************************************************)
(* Views of FetchAndWriteRecords used by the properties.                   *)
(***************************************************************************)
\* the call has returned
FwReturned == wpc = "returned"

\* the timer fired before the goroutine reported anything: its send is the
\* first of all
TimerFiredFirst == wLog # <<>> /\ wLog[1] = "timeout"

\* the goroutine has reported nothing that the select could receive
NothingReported == chFetchErr = <<>> /\ chDone = <<>>

ValidRecords ==
    {i \in 1..Len(twInv) :
        IsForecastType(twInv[i].TypeName) /\ IsPressureLayer(twInv[i].LayerName)}

\* the byte span [offset, offset+extent) of record i
SpanOf(i) == [k \in 1..twInv[i].Extent |-> twInv[i].Offset + k - 1]

\* the spans of the records listed by order, one after the other
RECURSIVE ConcatSpans(_)
ConcatSpans(order) ==
    IF order = <<>> THEN <<>> ELSE SpanOf(Head(order)) \o ConcatSpans(Tail(order))

\* the sum of the extents of a set of records
RECURSIVE SumExtentsOf(_)
SumExtentsOf(S) ==
    IF S = {} THEN 0
    ELSE LET i == CHOOSE x \in S : TRUE
         IN twInv[i].Extent + SumExtentsOf(S \ {i})

\* order lists records in Tawhiri order: forecast hour ascending, pressure
\* descending, parameter index ascending
InTawhiriOrder(order) ==
    \A k, l \in 1..Len(order) :
        k < l =>
            LET a == ToTawhiri(twInv[order[k]])
                b == ToTawhiri(twInv[order[l]])
            IN /\ a.ForecastHour <= b.ForecastHour
               /\ a.ForecastHour = b.ForecastHour => a.Pressure >= b.Pressure
               /\ (a.ForecastHour = b.ForecastHour /\ a.Pressure = b.Pressure)
                     => a.ParamIdx <= b.ParamIdx

\* ReorderGrib2 returned nil
Reordered == twCmd = "reorder" /\ tpc = "done" /\ reErr = "nil"

(***************************************************************************)
(* C28: ReorderGrib2 writes to the destination exactly the byte spans      *)
(* [offset, offset+extent) of the valid inventory items of the source,     *)
(* each exactly once, in Tawhiri sorted order, and nothing else: no span   *)
(* of an invalid item is written and the destination length equals the sum *)
(* of the extents of the valid items.  (Until it returns, and when it      *)
(* fails, the destination holds a leading part of that.)                   *)
(***************************************************************************)
C28_ReorderWritesValidSpans ==
    twCmd = "reorder" =>
        /\ \E n \in 0..Len(ConcatSpans(twOut)) :
              destFile = SubSeq(ConcatSpans(twOut), 1, n)
        /\ Reordered =>
              /\ Range(twOut) = ValidRecords
              /\ Len(twOut) = Cardinality(ValidRecords)
              /\ InTawhiriOrder(twOut)
              /\ destFile = ConcatSpans(twOut)
              /\ Len(destFile) = SumExtentsOf(ValidRecords)

\* a file of an invalid record of one byte, a record at 850 mb of two bytes
\* and a record at 1000 mb of one byte was reordered: the destination holds
\* the byte at offset 3, then those at offsets 1 and 2
C28_Witness ==
    /\ Reordered
    /\ Len(twInv) = 3
    /\ ValidRecords = {2, 3}
    /\ twInv[2].LayerName = <<"850", " mb">> /\ twInv[2].TypeName = <<"anl">>
    /\ twInv[3].LayerName = <<"1000", " mb">> /\ twInv[3].TypeName = <<"anl">>
    /\ twInv[1].Extent = 1 /\ twInv[2].Extent = 2 /\ twInv[3].Extent = 1
    /\ destFile = <<3, 1, 2>>

(***************************************************************************)
(* Views of the extract command used by the properties.                    *)
(***************************************************************************)
\* extract has returned, or the process is over
ExtractOver == epc \in {"returned", "exited"} \/ procState # "running"

(***************************************************************************)
(* C29: extract removes its temporary reordered composite file on every    *)
(* exit path: after it returns with success, after a reorder failure,      *)
(* after an expansion failure, and after an interrupt-triggered exit, the  *)
(* temporary file no longer exists.                                        *)
(***************************************************************************)
C29_TempFileRemovedOnEveryExit == ExtractOver => ~tmpExists

(***************************************************************************)
(* Views of the inv command used by the properties.                        *)
(***************************************************************************)
\* the text that was parsed, line by line
ParsedText == [i \in 1..Len(invLines) |-> invLines[i].text]

(***************************************************************************)
(* C30: with sorting and filtering both disabled, the inventory printed by *)
(* inv is line-for-line identical to the short-inventory text that was     *)
(* parsed: formatting with Wgrib2Strings after ParseInventory is the       *)
(* identity on well-formed 7-field lines, including N.M sub-record lines   *)
(* and empty field-average counts.                                         *)
(***************************************************************************)
C30_PrintedEqualsParsedText == ipc = "printed" => printed = ParsedText

(***************************************************************************)
(* Views of the TemporaryFileSource used by the properties.                *)
(***************************************************************************)
\* the last call was Remove(f) for a file this source tracked and that was
\* still on disk
RemovedTracked ==
    /\ srcCall.op = "Remove"
    /\ srcCall.f \in Range(srcCall.files)
    /\ srcCall.f \in srcCall.disk

\* the last call was Remove(f) for a file this source never created
RemovedForeign == srcCall.op = "Remove" /\ srcCall.f = 0

(***************************************************************************)
(* C31: Remove(f) returns no error when f was created by Create and not    *)
(* yet removed, deleting f from disk and from the tracked list and leaving *)
(* every other tracked file tracked; it returns an error and changes       *)
(* neither the tracked list nor the disk when f was not created by this    *)
(* source.                                                                 *)
(***************************************************************************)
C31_RemoveReportsWhatItDid ==
    /\ RemovedTracked =>
          /\ srcCall.err = "nil"
          /\ srcCall.f \notin srcDisk
          /\ srcFiles = SelectSeq(srcCall.files, LAMBDA g : g # srcCall.f)
    /\ RemovedForeign =>
          /\ srcCall.err # "nil"
          /\ srcFiles = srcCall.files
          /\ srcDisk = srcCall.disk

(***************************************************************************)
(* Views of the TemporaryFileSource in the pipeline.                       *)
(***************************************************************************)
\* no goroutine is between the load and the store of a call
NoCallOpen == pc # "cut" /\ \A d \in DatasetIds : task[d].pc \notin {"append", "cut"}

\* the temporary files created and not yet deleted
CreatedNotRemoved == DOMAIN tmpDisk

(***************************************************************************)
(* C32: under every interleaving of the Create and Remove calls of the     *)
(* download tasks, the tracked list equals the set of files created and    *)
(* not yet removed whenever no call is under way: no created file is lost  *)
(* from tracking and no removed file remains tracked.                      *)
(***************************************************************************)
C32_TrackedIsCreatedNotRemoved == NoCallOpen => tfsFiles = CreatedNotRemoved

(***************************************************************************)
(* Views of the download limiter used by the properties.                   *)
(***************************************************************************)
\* the tasks that give up their place between acquiring and releasing in
\* this step
LeavingFlight == {d \in DatasetIds : d \in InFlight /\ d \notin InFlight'}

(***************************************************************************)
(* C33: every dataset task that acquired a limiter permit releases it      *)
(* exactly once on every way out (success, tries exhausted, temporary file *)
(* not created): a task leaves the limiter only by giving one permit back, *)
(* permits are given back by nothing else, a finished task holds none, and *)
(* once all tasks of a syncRun have finished no permit is held, so that a  *)
(* later syncRun starts with the full capacity.                            *)
(***************************************************************************)
C33_PermitReleasedExactlyOnce ==
    /\ [][/\ \A d \in LeavingFlight :
               /\ task[d].pc = "release"
               /\ task'[d].pc = "wgdone"
               /\ fetchSem' = fetchSem - 1
          /\ fetchSem' < fetchSem => Cardinality(LeavingFlight) = 1
          /\ \A d \in DatasetIds :
               (task[d].pc \in {"wgdone", "finished"} /\ task'[d].pc # "idle") =>
                   task'[d].pc \in {"wgdone", "finished"}]_vars
    /\ []((\A d \in DatasetIds : task[d].pc \in {"idle", "finished"}) => fetchSem = 0)
    /\ [](~InSyncRun => fetchSem = 0)

C33_Witness ==
    /\ pc = "afterloop"
    /\ fetchSem = 0
    /\ wg = 0
    /\ MaximumRetries = 2
    /\ \E d, e \in Submitted :
          /\ task[d].pc = "finished" /\ ~task[d].fetched /\ task[d].tries = 2
          /\ task[e].pc = "finished" /\ task[e].fetched

(***************************************************************************)
(* Views of the completion queue used by the properties.                   *)
(***************************************************************************)
\* the places in the completion queue's history that hold a file of task d
PublishedBy(d) == {i \in 1..Len(received) : received[i][1] = d}

(***************************************************************************)
(* C34: each dataset task publishes at most one temporary file to the      *)
(* completion queue: exactly one, the file of its successful attempt, if   *)
(* some attempt succeeded, and none if all its attempts failed; the file   *)
(* of a failed attempt is never published.                                 *)
(***************************************************************************)
C34_PublishesOnlyTheSuccessfulFile ==
    \A d \in DatasetIds :
        /\ Cardinality(PublishedBy(d)) <= 1
        /\ \A i \in PublishedBy(d) :
              /\ task[d].fetched
              /\ received[i] = task[d].tmpFile
              /\ received[i] = FreshFile(d, task[d].tries)
        /\ task[d].pc = "finished" =>
              /\ task[d].fetched => Cardinality(PublishedBy(d)) = 1
              /\ ~task[d].fetched => PublishedBy(d) = {}

C34_Witness ==
    /\ MaximumRetries = 2
    /\ \E d, e \in DatasetIds :
          /\ task[d].pc = "finished" /\ task[d].fetched /\ task[d].tries = 1
          /\ received = <<FreshFile(d, 1)>>
          /\ task[e].pc = "finished" /\ ~task[e].fetched

(***************************************************************************)
(* Views of the attempts' temporary files used by the properties.          *)
(***************************************************************************)
\* the files of the attempts of task d that have failed so far
FailedFiles(d) == {FreshFile(d, k - 1) : k \in 1..task[d].tries}

(***************************************************************************)
(* C35: every download attempt writes to a temporary file created for that *)
(* attempt alone: once an attempt has failed its file is deleted, so it is *)
(* gone when the next attempt starts, and it is never used again; no       *)
(* temporary file holds bytes of two attempts.                             *)
(***************************************************************************)
C35_FailedAttemptFileDiscarded ==
    \A d \in DatasetIds :
        /\ \A f \in FailedFiles(d) : f \notin DOMAIN tmpDisk /\ f # task[d].tmpFile
        /\ \A f \in DOMAIN tmpDisk : f[1] = d => tmpDisk[f] \in {<<>>, DatasetBytes(d)}

(***************************************************************************)
(* C36: a dataset task makes at least one download attempt whatever the    *)
(* FetchStrategy: a MaximumRetries below 1 counts as 1 in the pipeline as  *)
(* it does in the retry executor, so a task that is past its loop has      *)
(* fetched its dataset or has failed at least once.                        *)
(***************************************************************************)
C36_AtLeastOneAttempt ==
    \A d \in DatasetIds :
        TaskOver(d) => (task[d].fetched \/ task[d].tries >= ClampTries(MaximumRetries))

\* the goroutine reported its result before the timer fired and before the
\* call returned: its send is the first of all
ReportedFirst == wLog # <<>> /\ wLog[1] \in {"done", "fetchErr"}

(***************************************************************************)
(* C37: FetchAndWriteRecords reports Timeout only if the timer fired       *)
(* before the transfer finished: in every interleaving, when the           *)
(* request-and-copy goroutine has reported completion or an error before   *)
(* the timer fires, the call returns that result and never Timeout.        *)
(***************************************************************************)
C37_ReportBeforeTimerIsReturned ==
    (FwReturned /\ ReportedFirst) =>
        /\ wErr # TimedOut
        /\ reqOutcome = "ok" => (wErr = "nil" /\ wN = bodyLen)

(***************************************************************************)
(* C38: if the process is interrupted while syncRun is assembling a run,   *)
(* the partly written output file is not left at the run's final path, so  *)
(* that a later invocation does not skip the run as already downloaded:    *)
(* after the interrupted process has exited, an output file exists at a    *)
(* run's path only if syncRun completed for that run.                      *)
(***************************************************************************)
C38_InterruptLeavesNoPartialOutput ==
    (exitState = "interrupted") => \A r \in outExists : runResult[r] = "ok"

\* the source listed fewer runs than -maxruns asks for
FewerRunsThanMax ==
    /\ pc # "start"
    /\ ~(exitState = "fatal" /\ fatalMsg = DiscoveryFailed)
    /\ Len(runs) < syncMaxRuns

(***************************************************************************)
(* C39: when the source lists fewer runs than maxRuns, runSync examines    *)
(* exactly the runs there are, each at most once, and ends with            *)
(* NoRunsDownloaded if none succeeds; it never reads a candidate beyond    *)
(* the end of the list of discovered runs.                                 *)
(***************************************************************************)
C39_FewerRunsThanMaxRuns ==
    FewerRunsThanMax =>
        /\ exitState # "panic"
        /\ \A i, j \in 1..Len(examined) : i # j => examined[i] # examined[j]
        /\ Range(examined) \subseteq Range(runs)
        /\ (RunSyncOver /\ \A r \in Range(examined) : runResult[r] # "ok") =>
              /\ examined = runs
              /\ exitState = "fatal" /\ fatalMsg = NoRunsDownloaded

(***************************************************************************)
(* Views of the repeated ReorderGrib2 used by the properties.              *)
(***************************************************************************)
\* ReorderGrib2 returned nil for the file the first ReorderGrib2 wrote
ReorderedAgain == Reordered /\ rePass = 2

\* the records in the order of the source
SourceOrder == [k \in 1..Len(twInv) |-> k]

=============================================================================
